---- MODULE Spec2Model ----
(***************************************************************************)
(* Land Data Tool: the transformation engine of src/services/transformer.ts *)
(* (validators, Key & Identity Resolver, Owner Resolution Engine, Stage     *)
(* Pipeline, Output Formatter) and the App shell of src/App.tsx.            *)
(*                                                                          *)
(* Cell values are strings, as the spreadsheet codec delivers them          *)
(* (sheet_to_json with defval '' and raw false); a row is a function from   *)
(* column names to cell values, a sheet a sequence of rows.                 *)
(***************************************************************************)
EXTENDS Integers, Sequences, FiniteSets, TLC

(***************************************************************************)
(* Strings: the JavaScript string operations the engine uses.              *)
(***************************************************************************)
Ch(s, i) == SubSeq(s, i, i)

CharsOf(s) == {Ch(s, i) : i \in 1..Len(s)}

DigitChars == "0123456789"
LowerChars == "abcdefghijklmnopqrstuvwxyzìàèòù"
UpperChars == "ABCDEFGHIJKLMNOPQRSTUVWXYZÌÀÈÒÙ"
PlainChars == "abcdefghijklmnopqrstuvwxyziaeou"

DigitSet == CharsOf(DigitChars)
LowerSet == CharsOf(LowerChars)
UpperSet == CharsOf(UpperChars)
\* \s of a JavaScript regular expression, and what trim() removes
SpaceSet == {" ", "\t", "\n", "\r"}

PosIn(c, alphabet) == CHOOSE i \in 1..Len(alphabet) : Ch(alphabet, i) = c

UpperMap == [c \in LowerSet |-> Ch(UpperChars, PosIn(c, LowerChars))]
LowerMap == [c \in UpperSet |-> Ch(LowerChars, PosIn(c, UpperChars))]
\* NFD decomposition followed by removal of the combining marks
AccentMap == [c \in LowerSet |-> Ch(PlainChars, PosIn(c, LowerChars))]
DigitVal == [c \in DigitSet |-> PosIn(c, DigitChars) - 1]

\* the concatenation of parts[lo..hi], by halves so that long strings do not
\* nest deeply
RECURSIVE concatRange(_, _, _)
concatRange(parts, lo, hi) ==
    IF lo > hi THEN ""
    ELSE IF lo = hi THEN parts[lo]
    ELSE concatRange(parts, lo, (lo + hi) \div 2)
         \o concatRange(parts, (lo + hi) \div 2 + 1, hi)

concat(parts) == concatRange(parts, 1, Len(parts))

toUpperCase(s) ==
    concat([i \in 1..Len(s) |->
        IF Ch(s, i) \in LowerSet THEN UpperMap[Ch(s, i)] ELSE Ch(s, i)])

toLowerCase(s) ==
    concat([i \in 1..Len(s) |->
        IF Ch(s, i) \in UpperSet THEN LowerMap[Ch(s, i)] ELSE Ch(s, i)])

stripAccents(s) ==
    concat([i \in 1..Len(s) |->
        IF Ch(s, i) \in LowerSet THEN AccentMap[Ch(s, i)] ELSE Ch(s, i)])

RECURSIVE trimStart(_)
trimStart(s) ==
    IF s # "" /\ Head(s) \in SpaceSet THEN trimStart(Tail(s)) ELSE s

RECURSIVE trimEnd(_)
trimEnd(s) ==
    IF s # "" /\ Ch(s, Len(s)) \in SpaceSet
    THEN trimEnd(SubSeq(s, 1, Len(s) - 1)) ELSE s

trim(s) == trimEnd(trimStart(s))

\* s.replace(/\s+/g, '')
removeSpaces(s) ==
    concat([i \in 1..Len(s) |-> IF Ch(s, i) \in SpaceSet THEN "" ELSE Ch(s, i)])

\* s.replace(/[set]+/g, ' '): every run of characters of set becomes one
\* blank, written at the first character of the run
replaceRuns(s, set) ==
    concat([i \in 1..Len(s) |->
        IF Ch(s, i) \notin set THEN Ch(s, i)
        ELSE IF i > 1 /\ Ch(s, i - 1) \in set THEN "" ELSE " "])

\* s.replace(/\s+/g, ' '): every run of whitespace becomes one blank
collapseSpaces(s) == replaceRuns(s, SpaceSet)

startsWith(s, p) == Len(p) <= Len(s) /\ SubSeq(s, 1, Len(p)) = p

\* s.includes(sub)
includes(s, sub) ==
    \E i \in 1..(Len(s) - Len(sub) + 1) : SubSeq(s, i, i + Len(sub) - 1) = sub

\* s.indexOf(sub), 1-based; 0 when sub does not occur
indexOf(s, sub) ==
    IF includes(s, sub)
    THEN CHOOSE i \in 1..(Len(s) - Len(sub) + 1) :
            /\ SubSeq(s, i, i + Len(sub) - 1) = sub
            /\ \A j \in 1..(i - 1) : SubSeq(s, j, j + Len(sub) - 1) # sub
    ELSE 0

\* s.split(sep)[0]
splitFirst(s, sep) ==
    IF includes(s, sep) THEN SubSeq(s, 1, indexOf(s, sep) - 1) ELSE s

\* s.substring(0, n)
substring0(s, n) == IF Len(s) <= n THEN s ELSE SubSeq(s, 1, n)

repeat(c, n) == concat([i \in 1..n |-> c])

\* s.padStart(n, '0')
padStart(s, n) == repeat("0", n - Len(s)) \o s

\* the longest prefix of s made of digits
RECURSIVE digitPrefix(_)
digitPrefix(s) ==
    IF s # "" /\ Head(s) \in DigitSet
    THEN Head(s) \o digitPrefix(Tail(s)) ELSE ""

RECURSIVE digitsValue(_, _)
digitsValue(s, acc) ==
    IF s = "" THEN acc ELSE digitsValue(Tail(s), 10 * acc + DigitVal[Head(s)])

\* String(n) of an integer
RECURSIVE natToString(_)
natToString(n) ==
    IF n < 10 THEN Ch(DigitChars, n + 1)
    ELSE natToString(n \div 10) \o Ch(DigitChars, (n % 10) + 1)

intToString(n) == IF n < 0 THEN "-" \o natToString(-n) ELSE natToString(n)

NaN == [nan |-> TRUE, val |-> 0]

\* parseInt(s): leading whitespace, an optional sign, then the digit prefix;
\* NaN when no digit follows (radix prefixes 0x are outside the alphabet used)
parseInt(s) ==
    LET t    == trimStart(s)
        neg  == t # "" /\ Head(t) = "-"
        body == IF t # "" /\ Head(t) \in {"-", "+"} THEN Tail(t) ELSE t
        ds   == digitPrefix(body)
    IN  IF ds = "" THEN NaN
        ELSE [nan |-> FALSE,
              val |-> IF neg THEN -digitsValue(ds, 0) ELSE digitsValue(ds, 0)]

(***************************************************************************)
(* Reference data: the province table and its lookup map.                  *)
(***************************************************************************)
ITALIAN_PROVINCES == <<
    [name |-> "Agrigento", code |-> "AG", region |-> "Sicilia"],
    [name |-> "Alessandria", code |-> "AL", region |-> "Piemonte"],
    [name |-> "Ancona", code |-> "AN", region |-> "Marche"],
    [name |-> "Aosta", code |-> "AO", region |-> "Valle d'Aosta"],
    [name |-> "Arezzo", code |-> "AR", region |-> "Toscana"],
    [name |-> "Ascoli Piceno", code |-> "AP", region |-> "Marche"],
    [name |-> "Asti", code |-> "AT", region |-> "Piemonte"],
    [name |-> "Avellino", code |-> "AV", region |-> "Campania"],
    [name |-> "Bari", code |-> "BA", region |-> "Puglia"],
    [name |-> "Barletta-Andria-Trani", code |-> "BT", region |-> "Puglia"],
    [name |-> "Belluno", code |-> "BL", region |-> "Veneto"],
    [name |-> "Benevento", code |-> "BN", region |-> "Campania"],
    [name |-> "Bergamo", code |-> "BG", region |-> "Lombardia"],
    [name |-> "Biella", code |-> "BI", region |-> "Piemonte"],
    [name |-> "Bologna", code |-> "BO", region |-> "Emilia-Romagna"],
    [name |-> "Bolzano", code |-> "BZ", region |-> "Trentino-Alto Adige"],
    [name |-> "Brescia", code |-> "BS", region |-> "Lombardia"],
    [name |-> "Brindisi", code |-> "BR", region |-> "Puglia"],
    [name |-> "Cagliari", code |-> "CA", region |-> "Sardegna"],
    [name |-> "Caltanissetta", code |-> "CL", region |-> "Sicilia"],
    [name |-> "Campobasso", code |-> "CB", region |-> "Molise"],
    [name |-> "Carbonia-Iglesias", code |-> "CI", region |-> "Sardegna"],
    [name |-> "Caserta", code |-> "CE", region |-> "Campania"],
    [name |-> "Catania", code |-> "CT", region |-> "Sicilia"],
    [name |-> "Catanzaro", code |-> "CZ", region |-> "Calabria"],
    [name |-> "Chieti", code |-> "CH", region |-> "Abruzzo"],
    [name |-> "Como", code |-> "CO", region |-> "Lombardia"],
    [name |-> "Cosenza", code |-> "CS", region |-> "Calabria"],
    [name |-> "Cremona", code |-> "CR", region |-> "Lombardia"],
    [name |-> "Crotone", code |-> "KR", region |-> "Calabria"],
    [name |-> "Cuneo", code |-> "CN", region |-> "Piemonte"],
    [name |-> "Enna", code |-> "EN", region |-> "Sicilia"],
    [name |-> "Fermo", code |-> "FM", region |-> "Marche"],
    [name |-> "Ferrara", code |-> "FE", region |-> "Emilia-Romagna"],
    [name |-> "Firenze", code |-> "FI", region |-> "Toscana"],
    [name |-> "Foggia", code |-> "FG", region |-> "Puglia"],
    [name |-> "Forlì-Cesena", code |-> "FC", region |-> "Emilia-Romagna"],
    [name |-> "Frosinone", code |-> "FR", region |-> "Lazio"],
    [name |-> "Genova", code |-> "GE", region |-> "Liguria"],
    [name |-> "Gorizia", code |-> "GO", region |-> "Friuli-Venezia Giulia"],
    [name |-> "Grosseto", code |-> "GR", region |-> "Toscana"],
    [name |-> "Imperia", code |-> "IM", region |-> "Liguria"],
    [name |-> "Isernia", code |-> "IS", region |-> "Molise"],
    [name |-> "La Spezia", code |-> "SP", region |-> "Liguria"],
    [name |-> "L'Aquila", code |-> "AQ", region |-> "Abruzzo"],
    [name |-> "Latina", code |-> "LT", region |-> "Lazio"],
    [name |-> "Lecce", code |-> "LE", region |-> "Puglia"],
    [name |-> "Lecco", code |-> "LC", region |-> "Lombardia"],
    [name |-> "Livorno", code |-> "LI", region |-> "Toscana"],
    [name |-> "Lodi", code |-> "LO", region |-> "Lombardia"],
    [name |-> "Lucca", code |-> "LU", region |-> "Toscana"],
    [name |-> "Macerata", code |-> "MC", region |-> "Marche"],
    [name |-> "Mantova", code |-> "MN", region |-> "Lombardia"],
    [name |-> "Massa-Carrara", code |-> "MS", region |-> "Toscana"],
    [name |-> "Matera", code |-> "MT", region |-> "Basilicata"],
    [name |-> "Medio Campidano", code |-> "VS", region |-> "Sardegna"],
    [name |-> "Messina", code |-> "ME", region |-> "Sicilia"],
    [name |-> "Milano", code |-> "MI", region |-> "Lombardia"],
    [name |-> "Modena", code |-> "MO", region |-> "Emilia-Romagna"],
    [name |-> "Monza e della Brianza", code |-> "MB", region |-> "Lombardia"],
    [name |-> "Napoli", code |-> "NA", region |-> "Campania"],
    [name |-> "Novara", code |-> "NO", region |-> "Piemonte"],
    [name |-> "Nuoro", code |-> "NU", region |-> "Sardegna"],
    [name |-> "Ogliastra", code |-> "OG", region |-> "Sardegna"],
    [name |-> "Olbia-Tempio", code |-> "OT", region |-> "Sardegna"],
    [name |-> "Oristano", code |-> "OR", region |-> "Sardegna"],
    [name |-> "Padova", code |-> "PD", region |-> "Veneto"],
    [name |-> "Palermo", code |-> "PA", region |-> "Sicilia"],
    [name |-> "Parma", code |-> "PR", region |-> "Emilia-Romagna"],
    [name |-> "Pavia", code |-> "PV", region |-> "Lombardia"],
    [name |-> "Perugia", code |-> "PG", region |-> "Umbria"],
    [name |-> "Pesaro e Urbino", code |-> "PU", region |-> "Marche"],
    [name |-> "Pescara", code |-> "PE", region |-> "Abruzzo"],
    [name |-> "Piacenza", code |-> "PC", region |-> "Emilia-Romagna"],
    [name |-> "Pisa", code |-> "PI", region |-> "Toscana"],
    [name |-> "Pistoia", code |-> "PT", region |-> "Toscana"],
    [name |-> "Pordenone", code |-> "PN", region |-> "Friuli-Venezia Giulia"],
    [name |-> "Potenza", code |-> "PZ", region |-> "Basilicata"],
    [name |-> "Prato", code |-> "PO", region |-> "Toscana"],
    [name |-> "Ragusa", code |-> "RG", region |-> "Sicilia"],
    [name |-> "Ravenna", code |-> "RA", region |-> "Emilia-Romagna"],
    [name |-> "Reggio Calabria", code |-> "RC", region |-> "Calabria"],
    [name |-> "Reggio Emilia", code |-> "RE", region |-> "Emilia-Romagna"],
    [name |-> "Rieti", code |-> "RI", region |-> "Lazio"],
    [name |-> "Rimini", code |-> "RN", region |-> "Emilia-Romagna"],
    [name |-> "Roma", code |-> "RM", region |-> "Lazio"],
    [name |-> "Rovigo", code |-> "RO", region |-> "Veneto"],
    [name |-> "Salerno", code |-> "SA", region |-> "Campania"],
    [name |-> "Sassari", code |-> "SS", region |-> "Sardegna"],
    [name |-> "Savona", code |-> "SV", region |-> "Liguria"],
    [name |-> "Siena", code |-> "SI", region |-> "Toscana"],
    [name |-> "Siracusa", code |-> "SR", region |-> "Sicilia"],
    [name |-> "Sondrio", code |-> "SO", region |-> "Lombardia"],
    [name |-> "Taranto", code |-> "TA", region |-> "Puglia"],
    [name |-> "Teramo", code |-> "TE", region |-> "Abruzzo"],
    [name |-> "Terni", code |-> "TR", region |-> "Umbria"],
    [name |-> "Torino", code |-> "TO", region |-> "Piemonte"],
    [name |-> "Trapani", code |-> "TP", region |-> "Sicilia"],
    [name |-> "Trento", code |-> "TN", region |-> "Trentino-Alto Adige"],
    [name |-> "Treviso", code |-> "TV", region |-> "Veneto"],
    [name |-> "Trieste", code |-> "TS", region |-> "Friuli-Venezia Giulia"],
    [name |-> "Udine", code |-> "UD", region |-> "Friuli-Venezia Giulia"],
    [name |-> "Varese", code |-> "VA", region |-> "Lombardia"],
    [name |-> "Venezia", code |-> "VE", region |-> "Veneto"],
    [name |-> "Verbano-Cusio-Ossola", code |-> "VB", region |-> "Piemonte"],
    [name |-> "Vercelli", code |-> "VC", region |-> "Piemonte"],
    [name |-> "Verona", code |-> "VR", region |-> "Veneto"],
    [name |-> "Vibo Valentia", code |-> "VV", region |-> "Calabria"],
    [name |-> "Vicenza", code |-> "VI", region |-> "Veneto"],
    [name |-> "Viterbo", code |-> "VT", region |-> "Lazio"]
>>

provinceEntry(p) == [code |-> p.code, region |-> p.region, name |-> p.name]

hasAccent(s) == \E c \in {"ì", "à", "è", "ò", "ù"} : includes(s, c)

\* keys ITALIAN_PROVINCES.forEach writes into PROVINCE_MAP, per province
provinceKeys(p) ==
    {toUpperCase(p.name), toUpperCase(p.code)}
    \cup (IF hasAccent(p.name) THEN {toUpperCase(stripAccents(p.name))} ELSE {})

\* the manual overrides: alias key -> key of the entry it copies
PROVINCE_ALIASES == <<
    <<"MONZA E BRIANZA", "MONZA E DELLA BRIANZA">>,
    <<"CARBONIA IGLESIAS", "CARBONIA-IGLESIAS">>,
    <<"MEDIO-CAMPIDANO", "MEDIO CAMPIDANO">>,
    <<"OLBIA TEMPIO", "OLBIA-TEMPIO">>,
    <<"PESARO URBINO", "PESARO E URBINO">>,
    <<"REGGIO NELL'EMILIA", "REGGIO EMILIA">>,
    <<"BOLZANO/BOZEN", "BOLZANO">>,
    <<"AOSTA/AOSTE", "AOSTA">>
>>

\* the map after the forEach: a later province overwrites an earlier key
PROVINCE_BASE ==
    LET keys == UNION {provinceKeys(ITALIAN_PROVINCES[i]) :
                         i \in 1..Len(ITALIAN_PROVINCES)}
        last(k) == CHOOSE i \in 1..Len(ITALIAN_PROVINCES) :
                      /\ k \in provinceKeys(ITALIAN_PROVINCES[i])
                      /\ \A j \in (i + 1)..Len(ITALIAN_PROVINCES) :
                            k \notin provinceKeys(ITALIAN_PROVINCES[j])
    IN  [k \in keys |-> provinceEntry(ITALIAN_PROVINCES[last(k)])]

PROVINCE_MAP ==
    LET aliasKeys == {PROVINCE_ALIASES[i][1] : i \in 1..Len(PROVINCE_ALIASES)}
        target(k) == PROVINCE_ALIASES[CHOOSE i \in 1..Len(PROVINCE_ALIASES) :
                                        PROVINCE_ALIASES[i][1] = k][2]
    IN  [k \in (DOMAIN PROVINCE_BASE) \cup aliasKeys |->
            IF k \in aliasKeys THEN PROVINCE_BASE[target(k)]
            ELSE PROVINCE_BASE[k]]

\* mutant: the fallback leaves the name blank
getProvinceDetails_blank(input) ==
    LET key == trim(toUpperCase(input))
    IN  IF key \in DOMAIN PROVINCE_MAP THEN PROVINCE_MAP[key]
        ELSE IF Len(key) = 2 THEN [code |-> key, region |-> "", name |-> ""]
        ELSE [code |-> toUpperCase(substring0(key, 2)), region |-> "", name |-> ""]

getProvinceDetails(input) ==
    LET key == trim(toUpperCase(input))
    IN  IF key \in DOMAIN PROVINCE_MAP THEN PROVINCE_MAP[key]
        ELSE IF Len(key) = 2 THEN [code |-> key, region |-> "", name |-> input]
        ELSE [code |-> toUpperCase(substring0(key, 2)), region |-> "",
              name |-> input]

\* one zero-padded component of the identifier (sheet: 4, parcel: 5)
padComponent(v, width) ==
    LET n == parseInt(v)
    IN  IF ~n.nan THEN padStart(intToString(n.val), width)
        ELSE padStart(v, width)

generateExternalId(provinceCode, municipality, section, sheet, parcel) ==
    LET mun == removeSpaces(toUpperCase(municipality))
        sec == IF section # "" /\ trim(section) # "" THEN trim(section) ELSE "X"
    IN  provinceCode \o "-" \o mun \o "-" \o sec \o "-"
        \o padComponent(sheet, 4) \o "-" \o padComponent(parcel, 5)

(***************************************************************************)
(* Helper functions of the engine.                                         *)
(***************************************************************************)
AsciiLower == CharsOf("abcdefghijklmnopqrstuvwxyz")
AsciiUpper == CharsOf("ABCDEFGHIJKLMNOPQRSTUVWXYZ")
\* [A-Z] under the i flag
LetterSet == AsciiLower \cup AsciiUpper
\* [A-Z0-9] under the i flag
AlnumSet == LetterSet \cup DigitSet
\* [\w\d]
WordSet == AlnumSet \cup {"_"}

\* the longest prefix of s whose characters are all in set
RECURSIVE spanLen(_, _)
spanLen(s, set) ==
    IF s # "" /\ Head(s) \in set THEN 1 + spanLen(Tail(s), set) ELSE 0

drop(s, n) == SubSeq(s, n + 1, Len(s))

\* length of the match of /Unknown\s+[A-Z]{2}-[\w\d]+-[A-Z0-9]+-\d{4}-\d{5}/i
\* at the start of s, 0 when it does not match there
unknownIdMatch(s) ==
    LET a  == drop(s, 7)
        sp == spanLen(a, SpaceSet)
        b  == drop(a, sp)
        c  == drop(b, 3)
        w  == spanLen(c, WordSet)
        d  == drop(c, w + 1)
        x  == spanLen(d, AlnumSet)
        e  == drop(d, x + 1)
        f  == drop(e, 5)
    IN  IF /\ toLowerCase(substring0(s, 7)) = "unknown"
           /\ sp > 0
           /\ Len(b) >= 3 /\ Ch(b, 1) \in LetterSet /\ Ch(b, 2) \in LetterSet
           /\ Ch(b, 3) = "-"
           /\ w > 0 /\ Len(c) > w /\ Ch(c, w + 1) = "-"
           /\ x > 0 /\ Len(d) > x /\ Ch(d, x + 1) = "-"
           /\ Len(e) >= 5 /\ spanLen(substring0(e, 4), DigitSet) = 4
           /\ Ch(e, 5) = "-"
           /\ Len(f) >= 5 /\ spanLen(substring0(f, 5), DigitSet) = 5
        THEN 7 + sp + 3 + (w + 1) + (x + 1) + 5 + 5
        ELSE 0

\* length of the match of /Timeout-Pending/i at the start of s
timeoutMatch(s) ==
    IF toLowerCase(substring0(s, 15)) = "timeout-pending" THEN 15 ELSE 0

\* length of the match of /\s+nat[oa](?:\/a)?\s+a\s+/i at the start of s
birthMatch(s) ==
    LET sp1 == spanLen(s, SpaceSet)
        a   == drop(s, sp1)
        w   == toLowerCase(substring0(a, 4))
        b   == drop(a, 4)
        opt == IF toLowerCase(substring0(b, 2)) = "/a" THEN 2 ELSE 0
        c   == drop(b, opt)
        sp2 == spanLen(c, SpaceSet)
        d   == drop(c, sp2)
        e   == drop(d, 1)
        sp3 == spanLen(e, SpaceSet)
    IN  IF /\ sp1 > 0
           /\ w \in {"nato", "nata"}
           /\ sp2 > 0
           /\ d # "" /\ toLowerCase(Ch(d, 1)) = "a"
           /\ sp3 > 0
        THEN sp1 + 4 + opt + sp2 + 1 + sp3
        ELSE 0

\* s.replace(/Unknown.../gi, '')
\* the matches are consumed left to right, the text between them is kept
RECURSIVE removeUnknownIds(_)
removeUnknownIds(s) ==
    IF \E i \in 1..Len(s) : unknownIdMatch(drop(s, i - 1)) > 0
    THEN LET i == CHOOSE i \in 1..Len(s) :
                     /\ unknownIdMatch(drop(s, i - 1)) > 0
                     /\ \A j \in 1..(i - 1) : unknownIdMatch(drop(s, j - 1)) = 0
         IN  SubSeq(s, 1, i - 1)
             \o removeUnknownIds(drop(s, i - 1 + unknownIdMatch(drop(s, i - 1))))
    ELSE s

\* s.replace(/Timeout-Pending/gi, '')
RECURSIVE removeTimeouts(_)
removeTimeouts(s) ==
    IF \E i \in 1..Len(s) : timeoutMatch(drop(s, i - 1)) > 0
    THEN LET i == CHOOSE i \in 1..Len(s) :
                     /\ timeoutMatch(drop(s, i - 1)) > 0
                     /\ \A j \in 1..(i - 1) : timeoutMatch(drop(s, j - 1)) = 0
         IN  SubSeq(s, 1, i - 1) \o removeTimeouts(drop(s, i - 1 + 15))
    ELSE s

\* s.split(/\s+nat[oa](?:\/a)?\s+a\s+/i)[0]
beforeBirth(s) ==
    IF \E i \in 1..Len(s) : birthMatch(drop(s, i - 1)) > 0
    THEN LET i == CHOOSE i \in 1..Len(s) :
                     /\ birthMatch(drop(s, i - 1)) > 0
                     /\ \A j \in 1..(i - 1) : birthMatch(drop(s, j - 1)) = 0
         IN  SubSeq(s, 1, i - 1)
    ELSE s

cleanOwnerName(name) ==
    trim(collapseSpaces(splitFirst(beforeBirth(removeTimeouts(
        removeUnknownIds(name))), ";")))

\* mutant: nothing is cut
truncate_keep(str, maxLength) == str

truncate(str, maxLength) ==
    IF str = "" THEN ""
    ELSE IF Len(str) <= maxLength THEN str
    ELSE SubSeq(str, 1, maxLength)

\* s.replace(/[\r\n\t]+/g, ' ')
replaceControls(s) == replaceRuns(s, {"\r", "\n", "\t"})

sanitize(val) == trim(collapseSpaces(replaceControls(val)))

normalizeMuni(m) == toLowerCase(trim(m))

\* s.replace(a, b): the first occurrence only
replaceFirst(s, a, b) ==
    IF includes(s, a)
    THEN SubSeq(s, 1, indexOf(s, a) - 1) \o b \o drop(s, indexOf(s, a) + Len(a) - 1)
    ELSE s

(***************************************************************************)
(* Numbers: a quota is a rational num/den (den > 0) or NaN.                *)
(***************************************************************************)
NaNq == [nan |-> TRUE, num |-> 0, den |-> 1]

rat(n, d) == [nan |-> FALSE, num |-> n, den |-> d]

RECURSIVE pow10(_)
pow10(k) == IF k = 0 THEN 1 ELSE 10 * pow10(k - 1)

\* parseFloat(s): leading whitespace, optional sign, digits with at most one
\* decimal point; NaN when no digit is read (exponents are outside the
\* alphabet used)
parseFloat(s) ==
    LET t    == trimStart(s)
        neg  == t # "" /\ Head(t) = "-"
        body == IF t # "" /\ Head(t) \in {"-", "+"} THEN Tail(t) ELSE t
        ip   == digitPrefix(body)
        rest == drop(body, Len(ip))
        fp   == IF rest # "" /\ Head(rest) = "." THEN digitPrefix(Tail(rest))
                ELSE ""
        mag  == digitsValue(ip \o fp, 0)
    IN  IF ip = "" /\ fp = "" THEN NaNq
        ELSE rat(IF neg THEN -mag ELSE mag, pow10(Len(fp)))

isZero(q) == q.num = 0

\* a / b for b # 0, with a positive denominator
ratDiv(a, b) ==
    IF b.num > 0 THEN rat(a.num * b.den, a.den * b.num)
    ELSE rat(-(a.num * b.den), a.den * (-b.num))

ratGt(a, b) == a.num * b.den > b.num * a.den

ratEq(a, b) == a.num * b.den = b.num * a.den

countOf(s, c) == Cardinality({i \in 1..Len(s) : Ch(s, i) = c})

parseQuota(quotaStr) ==
    LET s    == trim(quotaStr)
        i    == indexOf(s, "/")
        num  == parseFloat(SubSeq(s, 1, i - 1))
        den  == parseFloat(drop(s, i))
        f    == parseFloat(replaceFirst(s, ",", "."))
    IN  IF /\ includes(s, "/") /\ countOf(s, "/") = 1
           /\ ~num.nan /\ ~den.nan /\ ~isZero(den)
        THEN ratDiv(num, den)
        ELSE IF f.nan THEN rat(0, 1) ELSE f

(***************************************************************************)
(* Rows.  A row is a function from column names to cells; a column that a  *)
(* row lacks reads as undefined.                                           *)
(***************************************************************************)
has(row, k) == k \in DOMAIN row

\* row[k] || ''
cell(row, k) == IF has(row, k) THEN row[k] ELSE ""

\* row[k] is truthy
truthy(row, k) == has(row, k) /\ row[k] # ""

\* row[k] = v
put(row, k, v) == [x \in (DOMAIN row) \cup {k} |-> IF x = k THEN v ELSE row[x]]

\* arr.map(f)
mapSeq(arr, f(_)) == [i \in 1..Len(arr) |-> f(arr[i])]

\* arr.join(', ')
RECURSIVE join(_)
join(arr) ==
    IF Len(arr) = 0 THEN ""
    ELSE IF Len(arr) = 1 THEN arr[1]
    ELSE arr[1] \o ", " \o join(Tail(arr))

(***************************************************************************)
(* Schema Validator.                                                       *)
(***************************************************************************)
InputRequiredCols ==
    <<"provincia", "comune", "foglio", "particella", "Area", "Sezione", "CP",
      "Parcel_ID">>

firstRowOf(sheet) == IF Len(sheet) > 0 THEN sheet[1] ELSE <<>>

\* Object.keys(obj): rows and sheet-sets are kept as functions, which do not
\* record insertion order, so the keys come in one fixed order
RECURSIVE keysOf(_)
keysOf(obj) ==
    IF DOMAIN obj = {} THEN <<>>
    ELSE LET k == CHOOSE x \in DOMAIN obj : TRUE
         IN  <<k>> \o keysOf([x \in (DOMAIN obj) \ {k} |-> obj[x]])

missingColumns(requiredCols, firstRow) ==
    SelectSeq(requiredCols, LAMBDA col : ~has(firstRow, col))

\* foundSheets || 'none'
foundSheetsOf(jsonData) ==
    IF join(keysOf(jsonData)) = "" THEN "none" ELSE join(keysOf(jsonData))

\* mutant: Sheet1 is preferred when both sheets exist
inputSheetOf_sheet1(jsonData) ==
    IF has(jsonData, "Sheet1") THEN jsonData["Sheet1"] ELSE jsonData["Hoja1"]

\* the sheet both validateInputFile and runProcess read:
\* jsonData['Hoja1'] || jsonData['Sheet1'] (an array, even empty, is truthy)
inputSheetOf(jsonData) ==
    IF has(jsonData, "Hoja1") THEN jsonData["Hoja1"] ELSE jsonData["Sheet1"]

validateInputFile(jsonData) ==
    LET errors ==
          IF ~has(jsonData, "Hoja1") /\ ~has(jsonData, "Sheet1")
          THEN <<"Input file is missing required sheet: 'Hoja1' or 'Sheet1'. Found sheets: "
                 \o foundSheetsOf(jsonData)>>
          ELSE LET sheet == inputSheetOf(jsonData)
                   firstRow == firstRowOf(sheet)
                   missingCols == missingColumns(InputRequiredCols, firstRow)
               IN  IF Len(sheet) = 0
                   THEN <<"Input file sheet is empty.">>
                   ELSE IF Len(missingCols) > 0
                   THEN <<"Input file is missing columns: " \o join(missingCols)
                          \o ". Found columns: " \o join(keysOf(firstRow))>>
                   ELSE <<>>
    IN  [isValid |-> Len(errors) = 0, errors |-> errors]

ResultsRequiredSheets ==
    <<"All_Raw_Data", "Owners_Normalized", "All_Companies_Found",
      "Final_Mailing_By_Parcel">>

RawRequiredCols == <<"Parcel_ID", "cf_owner", "denominazione_owner", "nome", "cognome">>
NormRequiredCols == <<"Parcel_ID", "owner_name", "owner_cf", "quota">>
CompaniesRequiredCols == <<"cf", "pec_email">>

\* the column check of one of the three fixed-schema sheets
sheetColumnErrors(jsonData, sheetName, requiredCols) ==
    IF has(jsonData, sheetName)
    THEN LET firstRow == firstRowOf(jsonData[sheetName])
             missingCols == missingColumns(requiredCols, firstRow)
         IN  IF Len(missingCols) > 0
             THEN <<"Sheet '" \o sheetName \o "' is missing columns: "
                    \o join(missingCols) \o ". Found: " \o join(keysOf(firstRow))>>
             ELSE <<>>
    ELSE <<>>

\* the alias check of the mailing manifest
mailingColumnErrors(jsonData) ==
    IF has(jsonData, "Final_Mailing_By_Parcel")
    THEN LET firstRow == firstRowOf(jsonData["Final_Mailing_By_Parcel"])
             cols == {toLowerCase(k) : k \in DOMAIN firstRow}
             hasPid == cols \cap {"parcel_id", "elenco_parcel_id"} # {}
             hasName == cols \cap {"full_name", "destinatario", "nominativo"} # {}
             hasCf == cols \cap {"cf", "fiscal_code", "codice_fiscale"} # {}
             errorsList == (IF hasPid THEN <<>> ELSE <<"Parcel_ID">>)
                           \o (IF hasName THEN <<>> ELSE <<"Full_Name">>)
                           \o (IF hasCf THEN <<>> ELSE <<"cf">>)
         IN  IF Len(errorsList) > 0
             THEN <<"Sheet 'Final_Mailing_By_Parcel' is missing required columns (or aliases): "
                    \o join(errorsList) \o ". Found: " \o join(keysOf(firstRow))>>
             ELSE <<>>
    ELSE <<>>

validateResultsFile(jsonData) ==
    LET missingSheets ==
            SelectSeq(ResultsRequiredSheets, LAMBDA sheet : ~has(jsonData, sheet))
        errors ==
            (IF Len(missingSheets) > 0
             THEN <<"Results file is missing required sheets: "
                    \o join(missingSheets) \o ". Found sheets: "
                    \o foundSheetsOf(jsonData)>>
             ELSE <<>>)
            \o sheetColumnErrors(jsonData, "All_Raw_Data", RawRequiredCols)
            \o sheetColumnErrors(jsonData, "Owners_Normalized", NormRequiredCols)
            \o sheetColumnErrors(jsonData, "All_Companies_Found", CompaniesRequiredCols)
            \o mailingColumnErrors(jsonData)
    IN  [isValid |-> Len(errors) = 0, errors |-> errors]

(***************************************************************************)
(* Output Formatter: the CRM-shape row.                                    *)
(***************************************************************************)
\* the canonical identifier of a row that carries the mapped spatial fields
externalIdOf(row) ==
    generateExternalId(getProvinceDetails(cell(row, "Province")).code,
                       cell(row, "Municipality"), cell(row, "Section"),
                       cell(row, "Sheet"), cell(row, "Parcel"))

formatDecimalForCsv(val) == IF val = "" THEN "" ELSE replaceFirst(val, ".", ",")

\* mutant: the placeholder only fills a missing last name
csvOwnerNames_keep(row, status, externalId) ==
    LET firstName == sanitize(cell(row, "Main Owner Name"))
        lastName == sanitize(cell(row, "Main Owner Last Name"))
    IN  IF status = "Scouted" /\ lastName = "" THEN <<"", "Pending Owner">>
        ELSE <<firstName, lastName>>

\* mutant: the synthetic last name is given in the Contacted stage too
csvOwnerNames_all(row, status, externalId) ==
    LET firstName == sanitize(cell(row, "Main Owner Name"))
        lastName == sanitize(cell(row, "Main Owner Last Name"))
    IN  IF status = "Scouted" THEN <<"", "Pending Owner">>
        ELSE IF lastName = ""
        THEN <<firstName, substring0("Unknown " \o externalId, 80)>>
        ELSE <<firstName, lastName>>

\* <<firstName, lastName>> of the CRM row before truncation
csvOwnerNames(row, status, externalId) ==
    LET firstName == sanitize(cell(row, "Main Owner Name"))
        lastName == sanitize(cell(row, "Main Owner Last Name"))
    IN  IF status = "Scouted" THEN <<"", "Pending Owner">>
        ELSE IF lastName = "" /\ status # "Contacted"
        THEN <<firstName, substring0("Unknown " \o externalId, 80)>>
        ELSE <<firstName, lastName>>

mapToCsvRow(row, status) ==
    LET provDetails == getProvinceDetails(cell(row, "Province"))
        provinceName == IF provDetails.name # "" THEN provDetails.name
                        ELSE cell(row, "Province")
        externalId == externalIdOf(row)
        hasCount == has(row, "Number of Owners")
        numberOfOwners == IF hasCount THEN intToString(row["Number of Owners"])
                          ELSE ""
        hasVariousOwners == IF hasCount /\ row["Number of Owners"] > 1
                            THEN "True" ELSE "False"
        names == csvOwnerNames(row, status, externalId)
        firstName == names[1]
        lastName == names[2]
    IN  [k \in {"Land External ID", "Lead Status", "Land Province", "Land Region",
                "Municipality", "Sezione", "Foglio", "Particella",
                "Cadastral Area (Ha)", "Main Owner Name", "Main Owner Last Name",
                "Email", "Fiscal Code", "CP", "Has Various Owners",
                "Number of Owners", "All Owners"} |->
          CASE k = "Land External ID" -> sanitize(externalId)
            [] k = "Lead Status" -> status
            [] k = "Land Province" -> sanitize(provinceName)
            [] k = "Land Region" -> sanitize(provDetails.region)
            [] k = "Municipality" -> sanitize(cell(row, "Municipality"))
            [] k = "Sezione" -> sanitize(cell(row, "Section"))
            [] k = "Foglio" -> sanitize(cell(row, "Sheet"))
            [] k = "Particella" -> sanitize(cell(row, "Parcel"))
            [] k = "Cadastral Area (Ha)" ->
                   formatDecimalForCsv(cell(row, "Cadastral Area (Ha)"))
            [] k = "Main Owner Name" -> truncate(sanitize(firstName), 40)
            [] k = "Main Owner Last Name" -> truncate(lastName, 80)
            [] k = "Email" -> sanitize(cell(row, "Email"))
            [] k = "Fiscal Code" -> sanitize(cell(row, "Fiscal Code"))
            [] k = "CP" -> sanitize(cell(row, "CP"))
            [] k = "Has Various Owners" -> hasVariousOwners
            [] k = "Number of Owners" -> numberOfOwners
            [] k = "All Owners" -> truncate(sanitize(cell(row, "All Owners")), 255)]

(***************************************************************************)
(* Key & Identity Resolver.                                                *)
(***************************************************************************)
\* raw_base: the input rows with a business key
keyedRows(inputSheet) ==
    SelectSeq(inputSheet, LAMBDA row : has(row, "Parcel_ID") /\ row["Parcel_ID"] # "")

\* the common fields the forEach writes into each keyed row
mapCommonFields(row) ==
    LET r1 == put(row, "Province", cell(row, "provincia"))
        r2 == put(r1, "Municipality", cell(row, "comune"))
        r3 == put(r2, "Sheet", splitFirst(cell(row, "foglio"), "."))
        r4 == put(r3, "Parcel", splitFirst(cell(row, "particella"), "."))
        r5 == put(r4, "Cadastral Area (Ha)", cell(row, "Area"))
    IN  put(r5, "Section", cell(row, "Sezione"))

\* mutant: the set of a key is overwritten, not extended
trackPid_overwrite(pidMap, pid, extId) ==
    [p \in (DOMAIN pidMap) \cup {pid} |-> IF p = pid THEN {extId} ELSE pidMap[p]]

\* pidMap after pid produced extId
trackPid(pidMap, pid, extId) ==
    [p \in (DOMAIN pidMap) \cup {pid} |->
        IF p = pid
        THEN (IF pid \in DOMAIN pidMap THEN pidMap[pid] ELSE {}) \cup {extId}
        ELSE pidMap[p]]

\* mutant: the seen set is never consulted
isUnseen_never(extId, seenIds) == TRUE

\* !seenIds.has(extId)
isUnseen(extId, seenIds) == extId \notin seenIds

\* one iteration of raw_base.forEach over the state of the loop
dedupStep(st, row0) ==
    LET row == mapCommonFields(row0)
        extId == externalIdOf(row)
        fresh == isUnseen(extId, st.seenIds)
    IN  [seenIds |-> st.seenIds \cup {extId},
         pidMap |-> trackPid(st.pidMap, row["Parcel_ID"], extId),
         df_base |-> IF fresh THEN Append(st.df_base, row) ELSE st.df_base,
         duplicateCount |-> IF fresh THEN st.duplicateCount
                            ELSE st.duplicateCount + 1]

RECURSIVE dedupLoop(_, _)
dedupLoop(st, rows) ==
    IF Len(rows) = 0 THEN st
    ELSE dedupLoop(dedupStep(st, rows[1]), Tail(rows))

resolveKeys(inputSheet) ==
    dedupLoop([seenIds |-> {}, pidMap |-> <<>>, df_base |-> <<>>,
               duplicateCount |-> 0],
              keyedRows(inputSheet))

ambiguousPidsOf(pidMap) == {pid \in DOMAIN pidMap : Cardinality(pidMap[pid]) > 1}

(***************************************************************************)
(* Owner Resolution Engine.                                                *)
(***************************************************************************)
\* mutant: a later row of a fiscal code overrides the earlier one
RECURSIVE pecMapOf_last(_, _)
pecMapOf_last(rows, acc) ==
    IF Len(rows) = 0 THEN acc
    ELSE pecMapOf_last(Tail(rows),
             IF truthy(rows[1], "cf") /\ truthy(rows[1], "pec_email")
             THEN put(acc, rows[1]["cf"], rows[1]["pec_email"])
             ELSE acc)

\* pec_map: first occurrence of a fiscal code wins
RECURSIVE pecMapOf(_, _)
pecMapOf(rows, acc) ==
    IF Len(rows) = 0 THEN acc
    ELSE LET row == rows[1]
         IN  pecMapOf(Tail(rows),
                 IF truthy(row, "cf") /\ truthy(row, "pec_email")
                    /\ row["cf"] \notin DOMAIN acc
                 THEN put(acc, row["cf"], row["pec_email"])
                 ELSE acc)

\* /comune|municipality|city/i.test(k)
isMuniLike(k) ==
    LET l == toLowerCase(k)
    IN  includes(l, "comune") \/ includes(l, "municipality") \/ includes(l, "city")

\* muniColRaw: a municipality-like column of the first raw row, "" when the
\* table has none (the tables used carry at most one such column)
muniColRawOf(rawData) ==
    LET sampleRaw == firstRowOf(rawData)
    IN  IF \E k \in DOMAIN sampleRaw : isMuniLike(k)
        THEN CHOOSE k \in DOMAIN sampleRaw : isMuniLike(k)
        ELSE ""

\* raw_by_pid[pid] || [] and owners_norm_by_pid[pid] || []
rowsOfPid(rows, pid) == SelectSeq(rows, LAMBDA r : cell(r, "Parcel_ID") = pid)

isCompanyCf(r) ==
    LET cf == trim(cell(r, "cf_owner"))
    IN  Len(cf) > 0 /\ Head(cf) \in DigitSet

\* mutant: an empty filtered set always falls back to the full set
geoFilter_fallback(rawRows, muni, muniColRaw, ambiguous) ==
    IF muniColRaw # ""
    THEN LET m == normalizeMuni(muni)
             kept == SelectSeq(rawRows, LAMBDA r :
                        LET rMuni == normalizeMuni(cell(r, muniColRaw))
                        IN  rMuni = m \/ includes(rMuni, m))
         IN  IF Len(kept) = 0 THEN rawRows ELSE kept
    ELSE rawRows

\* Step 1: the geographic filter
geoFilter(rawRows, muni, muniColRaw, ambiguous) ==
    IF muniColRaw # "" /\ (ambiguous \/ Len(rawRows) > 0)
    THEN LET m == normalizeMuni(muni)
             kept == SelectSeq(rawRows, LAMBDA r :
                        LET rMuni == normalizeMuni(cell(r, muniColRaw))
                        IN  rMuni = m \/ includes(rMuni, m))
         IN  IF Len(kept) = 0 /\ ~ambiguous THEN rawRows ELSE kept
    ELSE rawRows

\* mutant: companies get no priority
corporateFilter_off(filteredRaw) == filteredRaw

\* Step 1b: the corporate priority rule
corporateFilter(filteredRaw) ==
    IF \E i \in 1..Len(filteredRaw) : isCompanyCf(filteredRaw[i])
    THEN SelectSeq(filteredRaw, LAMBDA r :
            LET cf == trim(cell(r, "cf_owner"))
            IN  cf # "" /\ Head(cf) \in DigitSet)
    ELSE filteredRaw

validFiscalCodesOf(filteredRaw) ==
    {filteredRaw[i]["cf_owner"] :
        i \in {j \in 1..Len(filteredRaw) : truthy(filteredRaw[j], "cf_owner")}}

\* cpValue: the CP of the last surviving row that has one
RECURSIVE cpValueOf(_, _)
cpValueOf(rows, acc) ==
    IF Len(rows) = 0 THEN acc
    ELSE cpValueOf(Tail(rows),
                   IF truthy(rows[1], "CP") THEN rows[1]["CP"] ELSE acc)

\* Step 4: index of the main normalized owner, 0 when none is chosen; the
\* loop keeps the first row whose quota exceeds the running maximum
RECURSIVE mainOwnerNormLoop(_, _, _, _)
mainOwnerNormLoop(rows, i, maxQuota, best) ==
    IF i > Len(rows) THEN best
    ELSE LET q == parseQuota(cell(rows[i], "quota"))
         IN  IF ratGt(q, maxQuota) THEN mainOwnerNormLoop(rows, i + 1, q, i)
             ELSE mainOwnerNormLoop(rows, i + 1, maxQuota, best)

mainOwnerNormIndex(relevantNormRows) ==
    mainOwnerNormLoop(relevantNormRows, 1, rat(-1, 1), 0)

\* the entry of one normalized owner in the All Owners string
normOwnerEntry(r) ==
    LET name == cleanOwnerName(cell(r, "owner_name"))
        cf == cell(r, "owner_cf")
        q == cell(r, "quota")
        extras == join(SelectSeq(<<cf, q>>, LAMBDA x : x # ""))
    IN  IF extras # "" THEN name \o " [" \o extras \o "]" ELSE name

\* the entry of one raw candidate in the All Owners string
rawOwnerEntry(r) ==
    LET name == cleanOwnerName(
                  IF truthy(r, "denominazione_owner") THEN r["denominazione_owner"]
                  ELSE cell(r, "nome") \o " " \o cell(r, "cognome"))
        cf == cell(r, "cf_owner")
    IN  IF cf # "" THEN name \o " [" \o cf \o "]" ELSE name

\* Steps 1b to 3 on the rows the geographic filter kept: the corporate
\* priority rule, the valid fiscal codes, the normalized rows that carry one
candidatesOfFiltered(geoRaw, filteredRaw, normRows) ==
    [geoRaw |-> geoRaw,
     filteredRaw |-> filteredRaw,
     validFiscalCodes |-> validFiscalCodesOf(filteredRaw),
     relevantNormRows |->
        SelectSeq(normRows,
                  LAMBDA r : cell(r, "owner_cf") \in validFiscalCodesOf(filteredRaw))]

candidatesAfterGeo(geoRaw, normRows) ==
    candidatesOfFiltered(geoRaw, corporateFilter(geoRaw), normRows)

\* the candidate sets processOwnersForLand works on for one parcel
ownerCandidates(landRow, rawData, normData, ambiguousPids) ==
    candidatesAfterGeo(
        geoFilter(rowsOfPid(rawData, landRow["Parcel_ID"]),
                  cell(landRow, "Municipality"), muniColRawOf(rawData),
                  landRow["Parcel_ID"] \in ambiguousPids),
        rowsOfPid(SelectSeq(normData, LAMBDA r : truthy(r, "Parcel_ID")),
                  landRow["Parcel_ID"]))

\* filteredRaw.find(r => r.cf_owner === cf): the row, or <<>> for undefined
findRawByCf(filteredRaw, cf) ==
    LET matching == {i \in 1..Len(filteredRaw) : cell(filteredRaw[i], "cf_owner") = cf}
    IN  IF matching = {} THEN <<>>
        ELSE filteredRaw[CHOOSE i \in matching : \A j \in matching : i <= j]

\* mutant: the split names are used when either is present
splitNames_either(row, fullName) ==
    IF truthy(row, "nome") \/ truthy(row, "cognome")
    THEN <<cell(row, "nome"), cell(row, "cognome")>>
    ELSE <<"", cleanOwnerName(fullName)>>

\* first and last name: the split names of the raw row when it has both,
\* else the cleaned full name as last name
splitNames(row, fullName) ==
    IF truthy(row, "nome") /\ truthy(row, "cognome")
    THEN <<row["nome"], row["cognome"]>>
    ELSE <<"", cleanOwnerName(fullName)>>

\* the main owner taken from the normalized row of highest quota
ownerFromNorm(mainOwnerNorm, filteredRaw) ==
    [found |-> TRUE,
     cf |-> cell(mainOwnerNorm, "owner_cf"),
     names |-> splitNames(findRawByCf(filteredRaw, cell(mainOwnerNorm, "owner_cf")),
                          cell(mainOwnerNorm, "owner_name"))]

\* the main owner taken from the first surviving raw row
ownerFromRaw(mainOwnerRow) ==
    [found |-> TRUE,
     cf |-> cell(mainOwnerRow, "cf_owner"),
     names |-> splitNames(mainOwnerRow,
                          IF truthy(mainOwnerRow, "denominazione_owner")
                          THEN mainOwnerRow["denominazione_owner"]
                          ELSE cell(mainOwnerRow, "owner_name"))]

\* if (mainOwnerNorm) ... else if (mainOwnerRow) ...
mainOwnerOf(filteredRaw, relevantNormRows, normIdx) ==
    IF normIdx > 0 THEN ownerFromNorm(relevantNormRows[normIdx], filteredRaw)
    ELSE IF Len(filteredRaw) > 0 THEN ownerFromRaw(filteredRaw[1])
    ELSE [found |-> FALSE, cf |-> "", names |-> <<"", "">>]

ownerCountOf(filteredRaw, relevantNormRows) ==
    IF Len(relevantNormRows) > 0 THEN Len(relevantNormRows) ELSE Len(filteredRaw)

allOwnersOf(filteredRaw, relevantNormRows) ==
    IF Len(relevantNormRows) > 0
    THEN join(mapSeq(relevantNormRows, normOwnerEntry))
    ELSE join(mapSeq(filteredRaw, rawOwnerEntry))

\* resultRow: the land row augmented with the owner fields
ownerResultRow(landRow, owner, ownerCount, allOwners, cpValue, pec_map) ==
    LET withEmail == IF owner.found /\ owner.cf \in DOMAIN pec_map
                     THEN put(landRow, "Email", pec_map[owner.cf]) ELSE landRow
        withCf == IF owner.found THEN put(withEmail, "Fiscal Code", owner.cf)
                  ELSE withEmail
    IN  put(put(put(put(put(withCf,
            "Main Owner Name", owner.names[1]),
            "Main Owner Last Name", owner.names[2]),
            "Number of Owners", ownerCount),
            "All Owners", allOwners),
            "CP", cpValue)

\* Steps 2 and 4 and the construction of the result, once the candidate
\* sets are known
resolveOwners(landRow, filteredRaw, relevantNormRows, pec_map) ==
    ownerResultRow(landRow,
        mainOwnerOf(filteredRaw, relevantNormRows,
                    mainOwnerNormIndex(relevantNormRows)),
        ownerCountOf(filteredRaw, relevantNormRows),
        allOwnersOf(filteredRaw, relevantNormRows),
        cpValueOf(filteredRaw, ""),
        pec_map)

ownersOfCandidates(landRow, c, pec_map) ==
    resolveOwners(landRow, c.filteredRaw, c.relevantNormRows, pec_map)

processOwnersForLand(landRow, rawData, normData, pec_map, ambiguousPids) ==
    ownersOfCandidates(landRow,
        ownerCandidates(landRow, rawData, normData, ambiguousPids), pec_map)

(***************************************************************************)
(* Stage Pipeline.                                                         *)
(***************************************************************************)
Carga1Cols ==
    <<"Province", "Municipality", "Section", "Sheet", "Parcel",
      "Cadastral Area (Ha)", "CP">>

\* mutant: the parcel number is read from the source column
scoutedRow_source(row) ==
    [col \in {Carga1Cols[i] : i \in 1..Len(Carga1Cols)} |->
        IF col = "Parcel" THEN cell(row, "particella") ELSE cell(row, col)]

\* the verification-shape row of the Scouted stage
scoutedRow(row) == [col \in {Carga1Cols[i] : i \in 1..Len(Carga1Cols)} |-> cell(row, col)]

\* mailingPids: the manifest's Parcel_ID cells
mailingPidsOf(mailingList) ==
    {mailingList[i]["Parcel_ID"] :
        i \in {j \in 1..Len(mailingList) : truthy(mailingList[j], "Parcel_ID")}}

\* mutant: every resolved parcel passes
retrievedOf_all(retrievedRaw) ==
    SelectSeq(retrievedRaw, LAMBDA row : row["Number of Owners"] >= 0)

\* Carga 2: the resolved parcels for which owner information was retrieved
retrievedOf(retrievedRaw) ==
    SelectSeq(retrievedRaw, LAMBDA row : row["Number of Owners"] > 0)

\* mutant: the manifest filters Carga 2
contactedOf_retrieved(retrievedRaw, mailingPids) ==
    SelectSeq(retrievedRaw, LAMBDA row :
        row["Number of Owners"] > 0 /\ row["Parcel_ID"] \in mailingPids)

\* Carga 3: the resolved parcels (retrievedRaw, not retrieved) in the manifest
contactedOf(retrievedRaw, mailingPids) ==
    SelectSeq(retrievedRaw, LAMBDA row : row["Parcel_ID"] \in mailingPids)

\* corporatePriorityCount: the parcels whose candidates the corporate
\* priority rule reduced
corporatePriorityCountOf(df_base, rawData, normData, ambiguousPids) ==
    Cardinality({i \in 1..Len(df_base) :
        LET c == ownerCandidates(df_base[i], rawData, normData, ambiguousPids)
        IN  Len(c.filteredRaw) < Len(c.geoRaw)})

\* the OutputData runProcess returns
stageOutput(df_base, retrieved, contacted) ==
    [scouted |-> mapSeq(df_base, scoutedRow),
     retrieved |-> retrieved,
     contacted |-> contacted,
     csvScouted |-> mapSeq(df_base, LAMBDA row : mapToCsvRow(row, "Scouted")),
     csvRetrieved |-> mapSeq(retrieved, LAMBDA row : mapToCsvRow(row, "Retrieved")),
     csvContacted |-> mapSeq(contacted, LAMBDA row : mapToCsvRow(row, "Contacted"))]

\* Carga 2 and Carga 3 from the resolved parcels; the record holds the
\* locals of runProcess next to its return value
filterStages(df_base, duplicateCount, ambiguousPids, retrievedRaw, corporatePriorityCount, mailingPids) ==
    [df_base |-> df_base,
     duplicateCount |-> duplicateCount,
     ambiguousPids |-> ambiguousPids,
     retrievedRaw |-> retrievedRaw,
     corporatePriorityCount |-> corporatePriorityCount,
     output |-> stageOutput(df_base, retrievedOf(retrievedRaw),
                            contactedOf(retrievedRaw, mailingPids))]

\* owner resolution of every base parcel
resolveStage(df_base, duplicateCount, ambiguousPids, resultsData) ==
    filterStages(df_base, duplicateCount, ambiguousPids,
        mapSeq(df_base, LAMBDA row :
            processOwnersForLand(row, resultsData["All_Raw_Data"],
                resultsData["Owners_Normalized"],
                pecMapOf(resultsData["All_Companies_Found"], <<>>),
                ambiguousPids)),
        corporatePriorityCountOf(df_base, resultsData["All_Raw_Data"],
            resultsData["Owners_Normalized"], ambiguousPids),
        mailingPidsOf(resultsData["Final_Mailing_By_Parcel"]))

stagesOfKeys(keys, resultsData) ==
    resolveStage(keys.df_base, keys.duplicateCount, ambiguousPidsOf(keys.pidMap),
                 resultsData)

runProcess(inputData, resultsData) ==
    stagesOfKeys(resolveKeys(inputSheetOf(inputData)), resultsData)

\* the lines runProcess writes through the log callback
processLogs(run) ==
    <<[message |-> "Preparing base data (Carga 1)...", type |-> "info"]>>
    \o (IF run.duplicateCount > 0
        THEN <<[message |-> "Removed " \o intToString(run.duplicateCount)
                            \o " duplicate parcel(s).", type |-> "info"]>>
        ELSE <<>>)
    \o (IF run.ambiguousPids # {}
        THEN <<[message |-> "Warning: Detected "
                            \o intToString(Cardinality(run.ambiguousPids))
                            \o " Parcel_IDs associated with multiple distinct lands (Ambiguous IDs). Enabling geographic filtering...",
                type |-> "info"]>>
        ELSE <<>>)
    \o <<[message |-> "Generating Carga 1: Scouted Lands...", type |-> "info"],
         [message |-> "-> Carga 1 generated with "
                      \o intToString(Len(run.output.scouted)) \o " rows.",
          type |-> "success"],
         [message |-> "Preparing 'Retrieved' data (Carga 2)...", type |-> "info"],
         [message |-> "Resolving owner data with ambiguity checks, Corporate Priority, and Over-Ownership resolution...",
          type |-> "info"]>>
    \o (IF run.corporatePriorityCount > 0
        THEN <<[message |-> "Applied Corporate Priority to "
                            \o intToString(run.corporatePriorityCount)
                            \o " parcels.", type |-> "info"]>>
        ELSE <<>>)
    \o <<[message |-> "-> Carga 2 generated with "
                      \o intToString(Len(run.output.retrieved)) \o " rows.",
          type |-> "success"],
         [message |-> "Preparing 'Contacted' data (Carga 3)...", type |-> "info"],
         [message |-> "-> Carga 3 generated with "
                      \o intToString(Len(run.output.contacted)) \o " rows.",
          type |-> "success"]>>

\* the input sheet-set after runProcess: the forEach writes the common
\* fields into the keyed row objects of the caller's sheet
inputAfterRun(inputData) ==
    LET name == IF has(inputData, "Hoja1") THEN "Hoja1" ELSE "Sheet1"
    IN  [inputData EXCEPT ![name] =
            mapSeq(inputData[name], LAMBDA row :
                IF has(row, "Parcel_ID") /\ row["Parcel_ID"] # ""
                THEN mapCommonFields(row) ELSE row)]

\* null of a cached sheet-set
Null == [null |-> TRUE]

\* what transformData('process') hands back after runProcess returned
processReturn(run) ==
    [threw |-> FALSE, ranProcess |-> TRUE, run |-> run,
     output |-> run.output, logs |-> processLogs(run)]

\* transformData(type = 'process', null, log, inputJson, resultsJson)
transformDataProcess(inputJson, resultsJson) ==
    IF inputJson = Null \/ resultsJson = Null
    THEN [threw |-> TRUE, error |-> "Missing data for processing",
          ranProcess |-> FALSE, logs |-> <<>>]
    ELSE processReturn(runProcess(inputJson, resultsJson))

(***************************************************************************)
(* State.                                                                  *)
(***************************************************************************)
VARIABLES
    inputJson,      \* the Input sheet-set handed to transformData('process')
    resultsJson,    \* the Results bundle handed to transformData('process')
    processed,      \* what the call produced; NotRun before it
    fileType,       \* the type of the file under validation
    jsonData,       \* the sheet-set decoded from that file
    validation,     \* the ValidationResult; NotValidated before the call
    files,          \* App state: the selected File per file type, or Null
    fileStatus,     \* App state: 'waiting' | 'loading' | 'valid' | 'invalid'
    fileErrors,     \* App state: the message shown per file type, or Null
    logs,           \* App state: the LogEntry list (timestamps left out)
    isProcessing,   \* App state
    outputData,     \* App state: the OutputData, or Null
    fileDataCache,  \* the ref holding the validated sheet-set per file type
    pendingLoads,   \* handleFileChange calls waiting on transformData
    pendingRuns,    \* handleRunTransformation calls waiting on the 100 ms timer
    clicks,         \* how many times each handler has been invoked
    fn,             \* the helper function under call
    args,           \* the argument it is called with
    returned        \* what it returned; NotCalled before the call

procVars == <<inputJson, resultsJson, processed>>
valVars == <<fileType, jsonData, validation>>
appVars == <<files, fileStatus, fileErrors, logs, isProcessing, outputData,
             fileDataCache, pendingLoads, pendingRuns, clicks>>
fnVars == <<fn, args, returned>>
vars == <<procVars, valVars, appVars, fnVars>>

NotRun == [ranProcess |-> FALSE, threw |-> FALSE, pending |-> TRUE]
NotValidated == [pending |-> TRUE]
NotCalled == [pending |-> TRUE]

FileTypes == {"input", "results"}

\* the parts of the state a specification does not exercise
ProcIdle == inputJson = Null /\ resultsJson = Null /\ processed = NotRun
ValIdle == fileType = "input" /\ jsonData = Null /\ validation = NotValidated
FnIdle == fn = "" /\ args = Null /\ returned = NotCalled
AppIdle ==
    /\ files = [t \in FileTypes |-> Null]
    /\ fileStatus = [t \in FileTypes |-> "waiting"]
    /\ fileErrors = [t \in FileTypes |-> Null]
    /\ logs = <<>>
    /\ isProcessing = FALSE
    /\ outputData = Null
    /\ fileDataCache = [t \in FileTypes |-> Null]
    /\ pendingLoads = {}
    /\ pendingRuns = 0
    /\ clicks = [select |-> 0, run |-> 0, reset |-> 0]

(***************************************************************************)
(* transformData('process'): one call of the engine on two sheet-sets.     *)
(***************************************************************************)
Process ==
    /\ processed = NotRun
    /\ processed' = transformDataProcess(inputJson, resultsJson)
    /\ inputJson' = IF inputJson = Null \/ resultsJson = Null THEN inputJson
                    ELSE inputAfterRun(inputJson)
    /\ UNCHANGED fnVars
    /\ UNCHANGED <<resultsJson, valVars, appVars>>

NextProcess == Process

(***************************************************************************)
(* Data sets the engine is run on.                                         *)
(***************************************************************************)
MaxInputRows == 3

\* all sequences over S of length lo..hi
RECURSIVE seqsOfLen(_, _)
seqsOfLen(S, n) ==
    IF n = 0 THEN {<<>>}
    ELSE {Append(q, x) : q \in seqsOfLen(S, n - 1), x \in S}

seqsBetween(S, lo, hi) == UNION {seqsOfLen(S, n) : n \in lo..hi}

inputRow(provincia, comune, foglio, particella, sezione, pid) ==
    [provincia |-> provincia, comune |-> comune, foglio |-> foglio,
     particella |-> particella, Area |-> "1.5", Sezione |-> sezione,
     CP |-> "24100", Parcel_ID |-> pid]

\* Input rows whose spellings collide on the canonical identifier (province
\* by code and by name, numeric text with and without padding) or not
KeyRows ==
    {inputRow(prov, "Ro ma", "42", par, "", pid) :
        prov \in {"BG", "bergamo "}, par \in {"7", "08.0"}, pid \in {"P1", "P2"}}
    \cup {inputRow("BG", "ROMA", "42.0", "007", "X", "")}

\* a Results bundle that passes validateResultsFile, one row per sheet
rawRow(pid, cf, denom, nome, cognome) ==
    [Parcel_ID |-> pid, cf_owner |-> cf, denominazione_owner |-> denom,
     nome |-> nome, cognome |-> cognome]

normRow(pid, name, cf, quota) ==
    [Parcel_ID |-> pid, owner_name |-> name, owner_cf |-> cf, quota |-> quota]

companyRow(cf, pec) == [cf |-> cf, pec_email |-> pec]

mailingRow(pid) == [Parcel_ID |-> pid, Full_Name |-> "Acme Srl", cf |-> "123"]

resultsBundle(raw, norm, companies, mailing) ==
    [All_Raw_Data |-> raw, Owners_Normalized |-> norm,
     All_Companies_Found |-> companies, Final_Mailing_By_Parcel |-> mailing]

BaseResults ==
    resultsBundle(<<rawRow("P1", "123", "Acme Srl", "", "")>>,
                  <<normRow("P1", "Acme Srl", "123", "1/1")>>,
                  <<companyRow("123", "acme@pec.it")>>,
                  <<mailingRow("P1")>>)

\* the owner columns an Input sheet may carry besides the required ones
withOwnerColumns(row) ==
    put(put(row, "Main Owner Name", "Mario"), "Main Owner Last Name", "Rossi")

InitKeys ==
    /\ \E rows \in seqsBetween(KeyRows, 1, MaxInputRows), owners \in BOOLEAN :
          inputJson = [Hoja1 |-> IF owners THEN mapSeq(rows, withOwnerColumns)
                                 ELSE rows]
    /\ resultsJson = BaseResults
    /\ processed = NotRun
    /\ ValIdle
    /\ AppIdle
    /\ FnIdle

\* the Key & Identity Resolver over Input sheets of colliding spellings
SpecKeys == InitKeys /\ [][NextProcess]_vars


MaxStageRows == 2
MaxRawRows == 2

\* Input rows for the stage pipeline: P1 names two physical parcels (Roma and
\* Milano) when both rows are present, P2 one
StageRows ==
    {inputRow("BG", "Roma", "1", "1", "", "P1"),
     inputRow("BG", "Milano", "1", "1", "", "P1"),
     inputRow("Bergamo", "Roma", "1.0", "2.0", "", "P2")}

\* raw ownership candidates: a company and an individual for P1, an
\* individual for P2, each with the municipality its source reports
StageRawRows ==
    {put(rawRow("P1", "123", "Acme Srl", "", ""), "comune", "Comune di Roma"),
     put(rawRow("P1", "RSSMRA80", "", "Mario", "Rossi"), "comune", "Napoli"),
     put(rawRow("P2", "RSSMRA80", "", "Mario", "Rossi"), "comune", "roma "),
     put(rawRow("P1", "VRDLGU75", "", "Luigi", "Verdi"), "comune", "Milano")}

StageNormRows ==
    {normRow("P1", "Rossi Mario nato a Napoli", "RSSMRA80", "1/2"),
     normRow("P2", "Rossi Mario", "RSSMRA80", "1000/1000")}

\* the row without its municipality column
withoutColumn(row, col) == [k \in (DOMAIN row) \ {col} |-> row[k]]

InitStage ==
    /\ \E rows \in seqsBetween(StageRows, 1, MaxStageRows) :
          inputJson = [Hoja1 |-> rows]
    /\ \E raw \in seqsBetween(StageRawRows, 1, MaxRawRows), norm \in StageNormRows,
          mailed \in {"P1", "P2"}, muniCol \in BOOLEAN :
          resultsJson =
            resultsBundle(
                IF muniCol THEN raw
                ELSE mapSeq(raw, LAMBDA r : withoutColumn(r, "comune")),
                <<norm>>, <<companyRow("123", "acme@pec.it")>>,
                <<mailingRow(mailed)>>)
    /\ processed = NotRun
    /\ ValIdle
    /\ AppIdle
    /\ FnIdle

\* the stage pipeline over Results bundles with and without owners per parcel
SpecStage == InitStage /\ [][NextProcess]_vars

MaxLimitRows == 2
MaxNameLen == 130

\* raw candidates of P1 whose names sit at, just over and far over the CRM
\* field limits
LimitRawRows ==
    {rawRow("P1", "RSSMRA80", repeat("D", d), repeat("N", n), repeat("C", c)) :
        n \in {0, 40, 41}, c \in {80, 81}, d \in {0, MaxNameLen}}

InitLimits ==
    /\ inputJson = [Hoja1 |-> <<inputRow("BG", "Roma", "1", "1", "", "P1")>>]
    /\ \E raw \in seqsBetween(LimitRawRows, 1, MaxLimitRows) :
          resultsJson = resultsBundle(raw, <<>>,
                            <<companyRow("123", "acme@pec.it")>>,
                            <<mailingRow("P1")>>)
    /\ processed = NotRun
    /\ ValIdle
    /\ AppIdle
    /\ FnIdle

\* the pipeline over owners whose names exceed the CRM field limits
SpecLimits == InitLimits /\ [][NextProcess]_vars

MaxSectionRows == 2

\* Input rows of one sheet and parcel number whose sections differ, some
\* only in their white space
SectionRows ==
    {inputRow("BG", "Roma", "1", "1", sec, pid) :
        sec \in {"", "X", "A B", "A  B", "A\tB", " A B "}, pid \in {"P1", "P2"}}

InitSections ==
    /\ \E rows \in seqsBetween(SectionRows, 1, MaxSectionRows) :
          inputJson = [Hoja1 |-> rows]
    /\ resultsJson = BaseResults
    /\ processed = NotRun
    /\ ValIdle
    /\ AppIdle
    /\ FnIdle

\* the pipeline over parcels told apart by their section
SpecSections == InitSections /\ [][NextProcess]_vars

MaxNormRows == 2

\* raw candidates of one parcel: a company, an individual with both split
\* names and a postal code, one with a denomination and a surname only, one
\* with a first name only, and a denomination without fiscal code
OwnerRawRows ==
    {rawRow("P1", "123", "Acme Srl", "", ""),
     put(rawRow("P1", "RSSMRA80", "", "Mario", "Rossi"), "CP", "20100"),
     rawRow("P1", "VRDLGU75", "Verdi Luigi", "", "Verdi"),
     rawRow("P1", "BNCANN70", "", "Anna", ""),
     rawRow("P1", "", "Eredi Rossi", "", "")}

\* normalized owners of the parcel with equal, zero, unparseable and
\* negative quotas
OwnerNormRows ==
    {normRow("P1", "Rossi Mario nato a Napoli", "RSSMRA80", "1/2"),
     normRow("P1", "Rossi Mario", "RSSMRA80", "0"),
     normRow("P1", "Verdi Luigi", "VRDLGU75", "1/2"),
     normRow("P1", "Verdi Luigi", "VRDLGU75", "x"),
     normRow("P1", "Rossi Mario", "RSSMRA80", "-2"),
     normRow("P1", "Acme Srl", "123", "1/1")}

InitOwners ==
    /\ inputJson = [Hoja1 |-> <<inputRow("BG", "Roma", "1", "1", "", "P1")>>]
    /\ \E raw \in seqsBetween(OwnerRawRows, 0, MaxRawRows),
          norm \in seqsBetween(OwnerNormRows, 0, MaxNormRows) :
          resultsJson = resultsBundle(raw, norm,
                            <<companyRow("123", "acme@pec.it")>>,
                            <<mailingRow("P1")>>)
    /\ processed = NotRun
    /\ ValIdle
    /\ AppIdle
    /\ FnIdle

\* the Owner Resolution Engine over the candidates of one parcel
SpecOwners == InitOwners /\ [][NextProcess]_vars

MaxCompanyRows == 2

\* Company Contact rows: two addresses and an empty one for the company, an
\* address for an individual, and an address without fiscal code
ContactRows ==
    {companyRow("123", "acme@pec.it"), companyRow("123", "other@pec.it"),
     companyRow("123", ""), companyRow("RSSMRA80", "rossi@pec.it"),
     companyRow("", "nobody@pec.it")}

\* the owner of the parcel: a company, an individual, or a denomination
\* without fiscal code, with or without a normalized row
ContactOwners ==
    {<<rawRow("P1", "123", "Acme Srl", "", ""), <<>>>>,
     <<rawRow("P1", "123", "Acme Srl", "", ""),
       <<normRow("P1", "Acme Srl", "123", "1/1")>>>>,
     <<rawRow("P1", "RSSMRA80", "", "Mario", "Rossi"), <<>>>>,
     <<rawRow("P1", "RSSMRA80", "", "Mario", "Rossi"),
       <<normRow("P1", "Rossi Mario", "RSSMRA80", "1/2")>>>>,
     <<rawRow("P1", "", "Eredi Rossi", "", ""), <<>>>>,
     <<rawRow("P2", "123", "Acme Srl", "", ""), <<>>>>}

InitContacts ==
    /\ inputJson = [Hoja1 |-> <<inputRow("BG", "Roma", "1", "1", "", "P1")>>]
    /\ \E owner \in ContactOwners,
          companies \in seqsBetween(ContactRows, 0, MaxCompanyRows) :
          resultsJson = resultsBundle(<<owner[1]>>, owner[2], companies,
                                      <<mailingRow("P1")>>)
    /\ processed = NotRun
    /\ ValIdle
    /\ AppIdle
    /\ FnIdle

\* the engine over Company Contact tables with repeated fiscal codes
SpecContacts == InitContacts /\ [][NextProcess]_vars

MaxDirtyRows == 1

\* Input rows with line breaks, tabs and doubled blanks in their cells
DirtyRows ==
    {put(put(inputRow("BG", comune, "1", "1", sec, "P1"), "Area", area), "CP", cp) :
        comune \in {"Roma", "Ro\r\nma"}, sec \in {"", "A\tB"},
        area \in {"1.5", "1.5\n", "1  5"}, cp \in {"24100", "24\t100"}}

\* the owner of the parcel, with clean and with broken name cells
DirtyOwners ==
    {<<>>,
     <<rawRow("P1", "123", "Acme\n  Srl", "", "")>>,
     <<rawRow("P1", "RSSMRA80", "", "Mario\t", "De  Rossi")>>,
     <<put(rawRow("P1", " 123\t", "", "", ""), "CP", "20\n100")>>}

InitDirty ==
    /\ \E rows \in seqsBetween(DirtyRows, 1, MaxDirtyRows) :
          inputJson = [Hoja1 |-> rows]
    /\ \E raw \in DirtyOwners :
          resultsJson = resultsBundle(raw, <<>>,
                            <<companyRow("123", "acme@pec.it")>>,
                            <<mailingRow("P1")>>)
    /\ processed = NotRun
    /\ ValIdle
    /\ AppIdle
    /\ FnIdle

\* the pipeline over cells typed with line breaks, tabs and doubled blanks
SpecDirty == InitDirty /\ [][NextProcess]_vars

(***************************************************************************)
(* Calls of single helper functions: the engine reads r.quota of a         *)
(* normalized owner row and hands it to parseQuota.                        *)
(***************************************************************************)
CallParseQuota ==
    /\ fn = "parseQuota"
    /\ returned = NotCalled
    /\ returned' = [value |-> parseQuota(cell(args, "quota"))]
    /\ UNCHANGED <<fn, args, procVars, valVars, appVars>>

NextQuota == CallParseQuota

MaxQuotaParts == 2

\* what each numeral used in the quota strings denotes
NumeralValue ==
    [p \in {"0", "1", "3", "-2", "1.5", "0.0", "10"} |->
        CASE p = "0" -> rat(0, 1)
          [] p = "1" -> rat(1, 1)
          [] p = "3" -> rat(3, 1)
          [] p = "-2" -> rat(-2, 1)
          [] p = "1.5" -> rat(3, 2)
          [] p = "0.0" -> rat(0, 1)
          [] p = "10" -> rat(10, 1)]

CommaValue == [p \in {"1,5", "0,25"} |-> IF p = "1,5" THEN rat(3, 2) ELSE rat(1, 4)]

QuotaParts == DOMAIN NumeralValue \cup {"", "x", "abc"}

RECURSIVE joinSlash(_)
joinSlash(parts) ==
    IF Len(parts) = 1 THEN parts[1] ELSE parts[1] \o "/" \o joinSlash(Tail(parts))

\* plain values, comma decimals and slash-separated parts, each also padded
\* with blanks as a cell typed by hand
QuotaStrings ==
    LET bare == DOMAIN CommaValue
                \cup {joinSlash(q) : q \in seqsBetween(QuotaParts, 1, MaxQuotaParts)}
    IN  bare \cup {" " \o b \o " " : b \in bare}

InitQuota ==
    /\ fn = "parseQuota"
    /\ args \in {<<>>} \cup {[quota |-> q] : q \in QuotaStrings}
    /\ returned = NotCalled
    /\ ProcIdle
    /\ ValIdle
    /\ AppIdle

\* parseQuota over hand-typed quota cells
SpecQuota == InitQuota /\ [][NextQuota]_vars

\* the resolver and the formatter hand the mapped fields of a row to
\* generateExternalId
CallGenerateExternalId ==
    /\ fn = "generateExternalId"
    /\ returned = NotCalled
    /\ returned' = [value |-> generateExternalId(args.provinceCode, args.municipality,
                                                 args.section, args.sheet, args.parcel)]
    /\ UNCHANGED <<fn, args, procVars, valVars, appVars>>

NextExternalId == CallGenerateExternalId

MaxIdDigits == 2

\* sheet and parcel cells: digit strings of up to MaxIdDigits digits, bare or
\* with a letter after or before them, and the empty cell
IdDigitStrings == seqsBetween({"0", "1", "2"}, 1, MaxIdDigits)

IdCells ==
    LET digits == {concat(q) : q \in IdDigitStrings}
    IN  digits \cup {d \o "A" : d \in digits} \cup {"A" \o d : d \in digits} \cup {""}

InitExternalId ==
    /\ fn = "generateExternalId"
    /\ args \in [provinceCode : {"BG"}, municipality : {"Ro ma"},
                 section : {"", " ", " B "}, sheet : IdCells, parcel : IdCells]
    /\ returned = NotCalled
    /\ ProcIdle
    /\ ValIdle
    /\ AppIdle

\* generateExternalId over numeric and mixed sheet and parcel cells
SpecExternalId == InitExternalId /\ [][NextExternalId]_vars

\* the resolver and the formatter look the province cell of a row up
CallGetProvinceDetails ==
    /\ fn = "getProvinceDetails"
    /\ returned = NotCalled
    /\ returned' = [value |-> getProvinceDetails(args)]
    /\ UNCHANGED <<fn, args, procVars, valVars, appVars>>

NextProvince == CallGetProvinceDetails

MaxPadding == 1

\* province cells: every name, code, lower-case name and accent-stripped
\* name of the table, the aliases, and cells that match nothing
ProvinceCells ==
    UNION {{ITALIAN_PROVINCES[i].name, ITALIAN_PROVINCES[i].code,
            toLowerCase(ITALIAN_PROVINCES[i].name),
            stripAccents(ITALIAN_PROVINCES[i].name)} :
              i \in 1..Len(ITALIAN_PROVINCES)}
    \cup {PROVINCE_ALIASES[i][1] : i \in 1..Len(PROVINCE_ALIASES)}
    \cup {"zz", "Zq", "Atlantis", "x", "", "Berg", "monza brianza"}

InitProvince ==
    /\ fn = "getProvinceDetails"
    /\ \E c \in ProvinceCells, before, after \in 0..MaxPadding :
          args = repeat(" ", before) \o c \o repeat(" ", after)
    /\ returned = NotCalled
    /\ ProcIdle
    /\ ValIdle
    /\ AppIdle

\* getProvinceDetails over known and unknown province cells
SpecProvince == InitProvince /\ [][NextProvince]_vars

(***************************************************************************)
(* The validation half of transformData: a decoded sheet-set is checked    *)
(* against the schema of its file type.                                    *)
(***************************************************************************)
ValidateInput ==
    /\ validation = NotValidated
    /\ fileType = "input"
    /\ validation' = validateInputFile(jsonData)
    /\ UNCHANGED fnVars
    /\ UNCHANGED <<fileType, jsonData, procVars, appVars>>

ValidateResults ==
    /\ validation = NotValidated
    /\ fileType = "results"
    /\ validation' = validateResultsFile(jsonData)
    /\ UNCHANGED fnVars
    /\ UNCHANGED <<fileType, jsonData, procVars, appVars>>

NextValidate == ValidateInput \/ ValidateResults

(***************************************************************************)
(* A Results bundle on its way through the tool: the validator checks it   *)
(* and the pipeline processes it.                                          *)
(***************************************************************************)
NextBundle == ValidateResults \/ Process

MaxMailingRows == 2

\* the names under which a manifest may carry its business key, and one that
\* is no alias
MailingKeyCols == {"Parcel_ID", "Elenco_Parcel_ID", "parcel_id", "Key"}

mailingRowAs(col, pid) ==
    [k \in {col, "Full_Name", "cf"} |->
        IF k = col THEN pid ELSE IF k = "cf" THEN "123" ELSE "Acme Srl"]

InitBundle ==
    /\ \E rows \in seqsBetween(StageRows, 1, MaxStageRows) :
          inputJson = [Hoja1 |-> rows]
    /\ \E col \in MailingKeyCols,
          pids \in seqsBetween({"P1", "P2"}, 1, MaxMailingRows) :
          resultsJson =
            resultsBundle(<<rawRow("P1", "123", "Acme Srl", "", "")>>,
                          <<normRow("P1", "Acme Srl", "123", "1/1")>>,
                          <<companyRow("123", "acme@pec.it")>>,
                          mapSeq(pids, LAMBDA pid : mailingRowAs(col, pid)))
    /\ processed = NotRun
    /\ fileType = "results"
    /\ jsonData = resultsJson
    /\ validation = NotValidated
    /\ AppIdle
    /\ FnIdle

\* validation and processing of manifests keyed under each alias
SpecBundle == InitBundle /\ [][NextBundle]_vars

MaxSheetRows == 2

seqToSet(q) == {q[i] : i \in 1..Len(q)}

\* a sheet of n rows that all carry the columns cols
sheetOf(cols, n) == [i \in 1..n |-> [c \in cols |-> "x"]]

\* the sheets a workbook may hold under one name: an empty sheet, or 1 to
\* MaxSheetRows rows under each of the given column sets
sheetsOver(colSets) ==
    {<<>>} \cup {sheetOf(cols, n) : cols \in colSets, n \in 1..MaxSheetRows}

\* the sheet-sets that hold, for each name, no sheet or one of choices[name]
RECURSIVE workbooksOver(_, _)
workbooksOver(names, choices) ==
    IF names = {} THEN {<<>>}
    ELSE LET name == CHOOSE n \in names : TRUE
             rest == workbooksOver(names \ {name}, choices)
         IN  rest \cup {put(w, name, sh) : w \in rest, sh \in choices[name]}

InputColumnSets ==
    {seqToSet(InputRequiredCols),
     seqToSet(InputRequiredCols) \ {"Parcel_ID", "CP"}}

InputWorkbooks ==
    workbooksOver({"Hoja1", "Sheet1", "Notes"},
        [n \in {"Hoja1", "Sheet1", "Notes"} |->
            IF n = "Notes" THEN {sheetOf({"text"}, 1)}
            ELSE sheetsOver(InputColumnSets)]) \ {<<>>}

MailingColumnSets ==
    {{"Parcel_ID", "Full_Name", "cf"},
     {"ELENCO_PARCEL_ID", "Destinatario", "Codice_Fiscale", "Indirizzo"},
     {"Parcel_ID", "Full_Name"}}

ResultsWorkbooks ==
    workbooksOver(seqToSet(ResultsRequiredSheets),
        [n \in seqToSet(ResultsRequiredSheets) |->
            CASE n = "All_Raw_Data" ->
                    sheetsOver({seqToSet(RawRequiredCols) \cup {"comune"},
                                seqToSet(RawRequiredCols) \ {"nome"}})
              [] n = "Owners_Normalized" ->
                    sheetsOver({seqToSet(NormRequiredCols),
                                seqToSet(NormRequiredCols) \ {"quota"}})
              [] n = "All_Companies_Found" ->
                    sheetsOver({seqToSet(CompaniesRequiredCols), {"cf"}})
              [] n = "Final_Mailing_By_Parcel" -> sheetsOver(MailingColumnSets)])
    \ {<<>>}

InitValidate ==
    /\ \/ fileType = "input" /\ jsonData \in InputWorkbooks
       \/ fileType = "results" /\ jsonData \in ResultsWorkbooks
    /\ validation = NotValidated
    /\ ProcIdle
    /\ AppIdle
    /\ FnIdle

\* the Schema Validator over workbooks with missing, empty and short sheets
SpecValidate == InitValidate /\ [][NextValidate]_vars

(***************************************************************************)
(* The App shell.  A handler that awaits is two steps: the part up to the  *)
(* await, and its continuation, which runs whenever the awaited promise    *)
(* settles.  Other handlers may run in between.  resetKey and activeTab    *)
(* steer rendering only and the download handlers write files and log      *)
(* lines only; they are left out.                                          *)
(***************************************************************************)
otherType(type) == IF type = "input" THEN "results" ELSE "input"

LogEntry(message, type) == [message |-> message, type |-> type]

\* readFileSheets(file): resolves with the sheet-set of the workbook, or
\* rejects with the decoder's error
readFileSheets(file) ==
    IF file.corrupt THEN [rejected |-> TRUE, error |-> file.error]
    ELSE [rejected |-> FALSE, result |-> file.sheets]

\* the validation step of transformData(type, file, log)
validationOf(type, sheets) ==
    IF type = "input" THEN validateInputFile(sheets)
    ELSE validateResultsFile(sheets)

\* mutant: a failed load keeps the data cached before it
cacheAfterFailure_keep(cache, type) == cache

\* fileDataCache.current[type] = null
cacheAfterFailure(cache, type) == [cache EXCEPT ![type] = Null]

\* mutant: only the Input entry of the cache is looked at
missingData_inputOnly(cache) == cache["input"] = Null

\* !fileDataCache.current.input || !fileDataCache.current.results
missingData(cache) == cache["input"] = Null \/ cache["results"] = Null

\* the Run button's disabled attribute
runDisabled ==
    isProcessing \/ fileStatus["input"] # "valid" \/ fileStatus["results"] # "valid"

MaxSelections == 2
MaxRuns == 2
MaxResets == 1

\* handleFileChange(file, type) up to the await; transformData logs the
\* "Reading" line before it awaits the reader
handleFileChange(file, type) ==
    /\ clicks.select < MaxSelections
    /\ files' = [files EXCEPT ![type] = file]
    /\ outputData' = Null
    /\ fileStatus' = [fileStatus EXCEPT ![type] = "loading"]
    /\ fileErrors' = [fileErrors EXCEPT ![type] = Null]
    /\ logs' = Append(logs, LogEntry("Reading " \o file.name \o "...", "info"))
    /\ pendingLoads' = pendingLoads \cup
          {[id |-> clicks.select + 1, type |-> type, file |-> file]}
    /\ clicks' = [clicks EXCEPT !.select = @ + 1]
    /\ UNCHANGED fnVars
    /\ UNCHANGED <<isProcessing, fileDataCache, pendingRuns, procVars, valVars>>

\* the continuation of handleFileChange when the file validates
handleFileChangeValid(load) ==
    /\ load \in pendingLoads
    /\ ~readFileSheets(load.file).rejected
    /\ validationOf(load.type, readFileSheets(load.file).result).isValid
    /\ fileDataCache' =
          [fileDataCache EXCEPT ![load.type] = readFileSheets(load.file).result]
    /\ fileStatus' = [fileStatus EXCEPT ![load.type] = "valid"]
    /\ logs' = Append(logs,
          LogEntry("'" \o load.file.name \o "' loaded and validated successfully.",
                   "success"))
    /\ pendingLoads' = pendingLoads \ {load}
    /\ UNCHANGED fnVars
    /\ UNCHANGED <<files, fileErrors, isProcessing, outputData, pendingRuns,
                   clicks, procVars, valVars>>

\* the continuation of handleFileChange when validation reports errors
handleFileChangeInvalid(load) ==
    /\ load \in pendingLoads
    /\ ~readFileSheets(load.file).rejected
    /\ LET v == validationOf(load.type, readFileSheets(load.file).result)
       IN  /\ ~v.isValid
           /\ fileDataCache' = cacheAfterFailure(fileDataCache, load.type)
           /\ fileStatus' = [fileStatus EXCEPT ![load.type] = "invalid"]
           /\ fileErrors' =
                 [fileErrors EXCEPT ![load.type] = [message |-> v.errors[1]]]
           /\ logs' = logs \o mapSeq(v.errors, LAMBDA err : LogEntry(err, "error"))
    /\ pendingLoads' = pendingLoads \ {load}
    /\ UNCHANGED fnVars
    /\ UNCHANGED <<files, isProcessing, outputData, pendingRuns, clicks,
                   procVars, valVars>>

\* the catch block of handleFileChange: the read was rejected
handleFileChangeCatch(load) ==
    /\ load \in pendingLoads
    /\ readFileSheets(load.file).rejected
    /\ LET errorMessage == readFileSheets(load.file).error
       IN  /\ logs' = Append(logs,
                 LogEntry("Error processing " \o load.file.name \o ": "
                          \o errorMessage, "error"))
           /\ fileStatus' = [fileStatus EXCEPT ![load.type] = "invalid"]
           /\ fileErrors' =
                 [fileErrors EXCEPT ![load.type] = [message |-> errorMessage]]
           /\ fileDataCache' = cacheAfterFailure(fileDataCache, load.type)
    /\ pendingLoads' = pendingLoads \ {load}
    /\ UNCHANGED fnVars
    /\ UNCHANGED <<files, isProcessing, outputData, pendingRuns, clicks,
                   procVars, valVars>>

\* handleRunTransformation when the cache lacks a file: one error line
handleRunTransformationRejected ==
    /\ clicks.run < MaxRuns
    /\ missingData(fileDataCache)
    /\ logs' = Append(logs,
          LogEntry("Both Input and Results files must be loaded and valid before running.",
                   "error"))
    /\ clicks' = [clicks EXCEPT !.run = @ + 1]
    /\ UNCHANGED fnVars
    /\ UNCHANGED <<files, fileStatus, fileErrors, isProcessing, outputData,
                   fileDataCache, pendingLoads, pendingRuns, procVars, valVars>>

\* handleRunTransformation up to the 100 ms pause
handleRunTransformationStart ==
    /\ clicks.run < MaxRuns
    /\ ~missingData(fileDataCache)
    /\ isProcessing' = TRUE
    /\ outputData' = Null
    /\ logs' = <<LogEntry("Starting transformation process...", "info")>>
    /\ pendingRuns' = pendingRuns + 1
    /\ clicks' = [clicks EXCEPT !.run = @ + 1]
    /\ UNCHANGED fnVars
    /\ UNCHANGED <<files, fileStatus, fileErrors, fileDataCache, pendingLoads,
                   procVars, valVars>>

\* mutant: setIsProcessing(false) at the end of the try block instead of in
\* a finally block
afterTransform_noFinally(result) ==
    /\ processed' = result
    /\ resultsJson' = fileDataCache["results"]
    /\ IF result.threw
       THEN /\ logs' = Append(logs,
                 LogEntry("An unexpected error occurred during transformation: "
                          \o result.error, "error"))
            /\ inputJson' = fileDataCache["input"]
            /\ UNCHANGED <<outputData, fileDataCache, isProcessing>>
       ELSE /\ logs' = (logs \o result.logs) \o
                 <<LogEntry("Transformation complete. Output files are ready for download.",
                            "success")>>
            /\ outputData' = result.output
            /\ inputJson' = inputAfterRun(fileDataCache["input"])
            /\ fileDataCache' = [fileDataCache EXCEPT !["input"] = inputJson']
            /\ isProcessing' = FALSE

\* the try / catch / finally of handleRunTransformation around the call
\* transformData('process', null, addLog, cache.input, cache.results), whose
\* outcome is result; runProcess logs through addLog and writes the common
\* fields into the cached Input rows
afterTransform(result) ==
    /\ processed' = result
    /\ resultsJson' = fileDataCache["results"]
    /\ IF result.threw
       THEN /\ logs' = Append(logs,
                 LogEntry("An unexpected error occurred during transformation: "
                          \o result.error, "error"))
            /\ inputJson' = fileDataCache["input"]
            /\ UNCHANGED <<outputData, fileDataCache>>
       ELSE /\ logs' = (logs \o result.logs) \o
                 <<LogEntry("Transformation complete. Output files are ready for download.",
                            "success")>>
            /\ outputData' = result.output
            /\ inputJson' = inputAfterRun(fileDataCache["input"])
            /\ fileDataCache' = [fileDataCache EXCEPT !["input"] = inputJson']
    /\ isProcessing' = FALSE

\* handleRunTransformation after the 100 ms pause
handleRunTransformationResume ==
    /\ pendingRuns > 0
    /\ afterTransform(transformDataProcess(fileDataCache["input"],
                                           fileDataCache["results"]))
    /\ pendingRuns' = pendingRuns - 1
    /\ UNCHANGED fnVars
    /\ UNCHANGED <<files, fileStatus, fileErrors, pendingLoads, clicks, valVars>>

\* mutant: a reset leaves the cache as it is
resetCache_keep(cache) == cache

\* fileDataCache.current = { input: null, results: null }
resetCache(cache) == [t \in FileTypes |-> Null]

\* handleReset: every piece of state back to its initial value
handleReset ==
    /\ clicks.reset < MaxResets
    /\ files' = [t \in FileTypes |-> Null]
    /\ fileStatus' = [t \in FileTypes |-> "waiting"]
    /\ fileErrors' = [t \in FileTypes |-> Null]
    /\ logs' = <<>>
    /\ outputData' = Null
    /\ fileDataCache' = resetCache(fileDataCache)
    /\ clicks' = [clicks EXCEPT !.reset = @ + 1]
    /\ UNCHANGED fnVars
    /\ UNCHANGED <<isProcessing, pendingLoads, pendingRuns, procVars, valVars>>

\* the files a user has at hand: a valid Input workbook, a valid Results
\* bundle, a bundle short of sheets and columns, an unreadable file
AppFiles ==
    {[name |-> "input.xlsx", corrupt |-> FALSE,
      sheets |-> [Sheet1 |-> <<inputRow("BG", "Roma", "1", "1", "", "P1")>>]],
     [name |-> "results.xlsx", corrupt |-> FALSE, sheets |-> BaseResults],
     [name |-> "partial.xlsx", corrupt |-> FALSE,
      sheets |-> [All_Raw_Data |-> <<[Parcel_ID |-> "P1"]>>]],
     [name |-> "broken.xlsx", corrupt |-> TRUE, error |-> "Unsupported file"]}

\* the files dropped on the zone of a file type: the right workbook, the
\* short bundle or the unreadable file
filesFor(type) ==
    {f \in AppFiles :
        f.name \in {IF type = "input" THEN "input.xlsx" ELSE "results.xlsx",
                    "partial.xlsx", "broken.xlsx"}}

NextApp ==
    \/ \E type \in FileTypes : \E file \in filesFor(type) : handleFileChange(file, type)
    \/ \E load \in pendingLoads : handleFileChangeValid(load)
    \/ \E load \in pendingLoads : handleFileChangeInvalid(load)
    \/ \E load \in pendingLoads : handleFileChangeCatch(load)
    \/ handleRunTransformationRejected
    \/ handleRunTransformationStart
    \/ handleRunTransformationResume
    \/ handleReset

InitApp == ProcIdle /\ ValIdle /\ AppIdle /\ FnIdle

\* the App shell under any interleaving of its handlers and continuations
SpecApp == InitApp /\ [][NextApp]_vars

\* the workbook of AppFiles with the given name
appFile(name) == CHOOSE f \in AppFiles : f.name = name

\* the App once input.xlsx and then results.xlsx were selected and both
\* loads completed: both files cached and valid, the Run button enabled
AppLoaded ==
    /\ files = [input |-> appFile("input.xlsx"), results |-> appFile("results.xlsx")]
    /\ fileStatus = [t \in FileTypes |-> "valid"]
    /\ fileErrors = [t \in FileTypes |-> Null]
    /\ logs = <<LogEntry("Reading input.xlsx...", "info"),
                LogEntry("'input.xlsx' loaded and validated successfully.", "success"),
                LogEntry("Reading results.xlsx...", "info"),
                LogEntry("'results.xlsx' loaded and validated successfully.", "success")>>
    /\ isProcessing = FALSE
    /\ outputData = Null
    /\ fileDataCache = [input |-> readFileSheets(appFile("input.xlsx")).result,
                        results |-> readFileSheets(appFile("results.xlsx")).result]
    /\ pendingLoads = {}
    /\ pendingRuns = 0

InitAppLoaded ==
    /\ ProcIdle /\ ValIdle /\ FnIdle
    /\ AppLoaded
    /\ clicks = [select |-> 0, run |-> 0, reset |-> 0]

\* the App shell from the moment both files are loaded: what the user and
\* the pending continuations do next
SpecAppLoaded == InitAppLoaded /\ [][NextApp]_vars

\* a click on the Run button, which the browser delivers only while the
\* button is enabled; the cache is then full (C29_StatusMatchesCache), so
\* handleRunTransformation goes on to the pause
runButtonClick ==
    /\ ~runDisabled
    /\ handleRunTransformationStart

\* the App shell as the user drives it through the page
NextPage ==
    \/ \E type \in FileTypes : \E file \in filesFor(type) : handleFileChange(file, type)
    \/ \E load \in pendingLoads : handleFileChangeValid(load)
    \/ \E load \in pendingLoads : handleFileChangeInvalid(load)
    \/ \E load \in pendingLoads : handleFileChangeCatch(load)
    \/ runButtonClick
    \/ handleRunTransformationResume
    \/ handleReset

\* the step at which a pending run resumes: among the steps of NextPage these
\* are the steps of handleRunTransformationResume, which is enabled whenever
\* a run is pending
pauseElapses ==
    /\ pendingRuns > 0
    /\ pendingRuns' = pendingRuns - 1

\* the 100 ms timer of a started run fires and the event loop runs its
\* continuation, a finite synchronous computation
SpecPageFair == InitApp /\ [][NextPage]_vars /\ WF_pendingRuns(pauseElapses)

(***************************************************************************)
(* Properties of the Key & Identity Resolver and of the Scouted stage.     *)
(***************************************************************************)
done == processed # NotRun /\ processed.ranProcess

\* indices of the Input rows that carry a business key
KeyedIdx == {i \in 1..Len(inputSheetOf(inputJson)) :
                cell(inputSheetOf(inputJson)[i], "Parcel_ID") # ""}

\* canonical identifier of the i-th Input row
IdOfInput(i) == externalIdOf(mapCommonFields(inputSheetOf(inputJson)[i]))

\* the keyed rows that are the first, in input order, with their identifier
FirstIdx == {i \in KeyedIdx : \A j \in KeyedIdx : j < i => IdOfInput(j) # IdOfInput(i)}

\* C2: the base parcel set holds exactly the first keyed row of every distinct
\* canonical identifier, in input order, so identifiers are unique in it;
\* duplicateCount is the number of keyed rows minus the size of the base set;
\* no base row has an empty Parcel_ID.
C2_BaseSetIsFirstPerIdentifier ==
    done =>
      LET base == processed.run.df_base
          sheet == inputSheetOf(inputJson)
      IN  /\ Len(base) = Cardinality(FirstIdx)
          /\ \A i \in FirstIdx :
                base[Cardinality({j \in FirstIdx : j <= i})] = mapCommonFields(sheet[i])
          /\ {externalIdOf(base[k]) : k \in 1..Len(base)}
                = {IdOfInput(i) : i \in KeyedIdx}
          /\ \A a, b \in 1..Len(base) :
                a # b => externalIdOf(base[a]) # externalIdOf(base[b])
          /\ processed.run.duplicateCount = Cardinality(KeyedIdx) - Len(base)
          /\ \A k \in 1..Len(base) : base[k]["Parcel_ID"] # ""

\* C2 witness: a run that skipped a row without business key and dropped a
\* duplicate spelled differently from the row it kept
C2_Witness ==
    /\ done
    /\ processed.run.duplicateCount >= 1
    /\ \E i \in 1..Len(inputSheetOf(inputJson)) : i \notin KeyedIdx
    /\ \E i \in KeyedIdx \ FirstIdx, j \in FirstIdx :
          /\ IdOfInput(i) = IdOfInput(j)
          /\ inputSheetOf(inputJson)[i]["provincia"] # inputSheetOf(inputJson)[j]["provincia"]

\* C5: a business key is ambiguous exactly when the keyed Input rows carrying
\* it, dropped duplicates included, produce more than one canonical identifier.
C5_AmbiguousIffSeveralIdentifiers ==
    done =>
      LET sheet == inputSheetOf(inputJson)
          idsOf(pid) == {IdOfInput(i) : i \in {j \in KeyedIdx : sheet[j]["Parcel_ID"] = pid}}
      IN  /\ \A i \in KeyedIdx :
                (sheet[i]["Parcel_ID"] \in processed.run.ambiguousPids)
                    <=> (Cardinality(idsOf(sheet[i]["Parcel_ID"])) > 1)
          /\ processed.run.ambiguousPids \subseteq {sheet[i]["Parcel_ID"] : i \in KeyedIdx}

\* C5 witness: a key is ambiguous although only one of its rows survived
\* deduplication, next to a key that is not ambiguous
C5_Witness ==
    /\ done
    /\ \E pid \in processed.run.ambiguousPids :
          Cardinality({k \in 1..Len(processed.run.df_base) :
                          processed.run.df_base[k]["Parcel_ID"] = pid}) = 1
    /\ \E i \in KeyedIdx :
          inputSheetOf(inputJson)[i]["Parcel_ID"] \notin processed.run.ambiguousPids

inSeq(x, q) == \E i \in 1..Len(q) : q[i] = x

ownersOf(row) == row["Number of Owners"]

survivorsOf(k) ==
    ownerCandidates(processed.run.df_base[k], resultsJson["All_Raw_Data"],
                    resultsJson["Owners_Normalized"],
                    processed.run.ambiguousPids).filteredRaw

SpatialCols == {"Province", "Municipality", "Section", "Sheet", "Parcel"}

sameParcel(a, b) == \A col \in SpatialCols : cell(a, col) = cell(b, col)

\* C4: every Retrieved record has a Scouted record with the same province,
\* municipality, section, sheet and parcel (hence the same canonical
\* identifier), and Scouted has exactly one record per base parcel.
C4_RetrievedWithinScouted ==
    done =>
      LET base == processed.run.df_base
          scouted == processed.output.scouted
          retrieved == processed.output.retrieved
      IN  /\ \A i \in 1..Len(retrieved) :
                \E k \in 1..Len(scouted) :
                    /\ sameParcel(retrieved[i], scouted[k])
                    /\ externalIdOf(retrieved[i]) = externalIdOf(scouted[k])
          /\ Len(scouted) = Len(base)
          /\ \A k \in 1..Len(base) : sameParcel(scouted[k], base[k])
          /\ \A a, b \in 1..Len(scouted) :
                a # b => externalIdOf(scouted[a]) # externalIdOf(scouted[b])

\* C4 witness: of two Scouted parcels only one was retrieved
C4_Witness ==
    /\ done
    /\ Len(processed.output.scouted) = 2
    /\ Len(processed.output.retrieved) = 1

(***************************************************************************)
(* Properties of the Schema Validator.                                     *)
(***************************************************************************)
validated == validation # NotValidated

hasAllColumns(sheet, requiredCols) ==
    Len(sheet) = 0 \/ seqToSet(requiredCols) \subseteq DOMAIN sheet[1]

\* a Results bundle with the four sheets whose non-empty sheets carry the
\* required columns (the manifest under one of its aliases)
wellFormedResults(w) ==
    /\ seqToSet(ResultsRequiredSheets) \subseteq DOMAIN w
    /\ hasAllColumns(w["All_Raw_Data"], RawRequiredCols)
    /\ hasAllColumns(w["Owners_Normalized"], NormRequiredCols)
    /\ hasAllColumns(w["All_Companies_Found"], CompaniesRequiredCols)
    /\ \/ Len(w["Final_Mailing_By_Parcel"]) = 0
       \/ w["Final_Mailing_By_Parcel"][1] \in
             {[c \in cols |-> "x"] : cols \in MailingColumnSets \ {{"Parcel_ID", "Full_Name"}}}

someSheetEmpty(w) == \E n \in DOMAIN w : Len(w[n]) = 0

\* C6 as stated: a Results bundle that holds the four required sheets is
\* valid, without any error, when one or more of them has zero rows (refuted
\* by the code: the column check of an empty sheet reports every column
\* missing)
C6_EmptySheetIsNoError ==
    (validated /\ fileType = "results" /\ wellFormedResults(jsonData)
        /\ someSheetEmpty(jsonData))
      => (validation.isValid /\ Len(validation.errors) = 0)

\* C7: validateInputFile answers valid exactly when Hoja1 or Sheet1 exists,
\* the sheet it reads (Hoja1 when both exist) is non-empty and its first row
\* has the eight required columns; otherwise the error list is non-empty;
\* isValid always equals "no errors".
C7_InputValidIffSchema ==
    (validated /\ fileType = "input") =>
      LET hasSheet == has(jsonData, "Hoja1") \/ has(jsonData, "Sheet1")
          selected == IF has(jsonData, "Hoja1") THEN jsonData["Hoja1"]
                      ELSE jsonData["Sheet1"]
          ok == /\ hasSheet
                /\ Len(selected) > 0
                /\ \A c \in seqToSet(InputRequiredCols) : c \in DOMAIN selected[1]
      IN  /\ validation.isValid <=> ok
          /\ validation.isValid <=> (Len(validation.errors) = 0)
          /\ ~ok => Len(validation.errors) > 0

\* C7 witness: an empty Hoja1 next to a complete Sheet1 is rejected
C7_Witness ==
    /\ validated /\ fileType = "input"
    /\ has(jsonData, "Hoja1") /\ has(jsonData, "Sheet1")
    /\ Len(jsonData["Hoja1"]) = 0
    /\ Len(jsonData["Sheet1"]) > 0
    /\ seqToSet(InputRequiredCols) \subseteq DOMAIN jsonData["Sheet1"][1]
    /\ ~validation.isValid

(***************************************************************************)
(* Properties of the App shell.                                            *)
(***************************************************************************)
isPrefix(a, b) == Len(a) <= Len(b) /\ SubSeq(b, 1, Len(a)) = a

\* the log lines a step appended
appended == SubSeq(logs', Len(logs) + 1, Len(logs'))

\* C8: a pipeline invocation without two validated inputs is rejected before
\* any computation: transformData('process') with a missing sheet-set throws
\* without running runProcess, logging or returning output, and
\* handleRunTransformation with a null cache entry logs one error line and
\* leaves isProcessing, the earlier log lines and outputData as they were.
C8_RejectedBeforeComputation ==
    /\ []((processed # NotRun /\ (inputJson = Null \/ resultsJson = Null))
            => /\ processed.threw
               /\ ~processed.ranProcess
               /\ processed.logs = <<>>
               /\ ~has(processed, "output"))
    /\ [][(clicks'.run = clicks.run + 1
            /\ (fileDataCache["input"] = Null \/ fileDataCache["results"] = Null))
            => /\ isPrefix(logs, logs')
               /\ Len(appended) = 1
               /\ appended[1].type = "error"
               /\ UNCHANGED <<isProcessing, outputData, pendingRuns, fileDataCache>>]_vars

\* C8 witness: a run whose cache was emptied during the pause has thrown, and
\* a later click on an empty cache has logged the precondition error
C8_Witness ==
    /\ processed # NotRun /\ processed.threw
    /\ resultsJson = Null
    /\ clicks.run = 2
    /\ ~isProcessing
    /\ outputData = Null
    /\ Len(logs) > 0
    /\ logs[Len(logs)] =
          LogEntry("Both Input and Results files must be loaded and valid before running.",
                   "error")

\* C9: when the load of a file of type t ends in validation errors or in a
\* rejected read, the continuation sets fileStatus[t] to 'invalid' and the
\* cached data of t to null, appends one error line per validation error (one
\* line in all for a rejected read), and leaves the status and the cached
\* data of the other type as they were.
C9_FailedLoadIsContained ==
    [][\A load \in pendingLoads :
          LET read == readFileSheets(load.file)
              failed == read.rejected
                        \/ ~validationOf(load.type, read.result).isValid
              o == otherType(load.type)
          IN  (load \notin pendingLoads' /\ failed) =>
                /\ fileStatus'[load.type] = "invalid"
                /\ fileDataCache'[load.type] = Null
                /\ isPrefix(logs, logs')
                /\ \A i \in 1..Len(appended) : appended[i].type = "error"
                /\ IF read.rejected THEN Len(appended) = 1
                   ELSE mapSeq(appended, LAMBDA e : e.message)
                          = validationOf(load.type, read.result).errors
                /\ fileStatus'[o] = fileStatus[o]
                /\ fileDataCache'[o] = fileDataCache[o]]_vars

\* C9 witness: a Results load failed with two errors logged while the Input
\* file stayed valid and cached
C9_Witness ==
    /\ fileStatus["results"] = "invalid"
    /\ fileDataCache["results"] = Null
    /\ fileStatus["input"] = "valid"
    /\ fileDataCache["input"] # Null
    /\ pendingLoads = {}
    /\ Len(logs) >= 2
    /\ logs[Len(logs)].type = "error"
    /\ logs[Len(logs) - 1].type = "error"

(***************************************************************************)
(* Properties of the Output Formatter and the Owner Resolution Engine.     *)
(***************************************************************************)
\* the CRM-shape rows of the three stages
csvRowsOf(output) == output.csvScouted \o output.csvRetrieved \o output.csvContacted

\* the aggregate owner string the engine resolves for the k-th base parcel
aggregateOf(k) ==
    LET c == ownerCandidates(processed.run.df_base[k], resultsJson["All_Raw_Data"],
                             resultsJson["Owners_Normalized"],
                             processed.run.ambiguousPids)
    IN  allOwnersOf(c.filteredRaw, c.relevantNormRows)

\* C11: in every CRM-shape row of every stage Main Owner Name has at most 40
\* characters, Main Owner Last Name at most 80 and All Owners at most 255, and
\* each is the leading part of the resolved value; the verification-shape
\* records of the parcel carry the resolved aggregate owner string uncut.
C11_CrmFieldsWithinLimits ==
    done =>
      /\ \A i \in 1..Len(csvRowsOf(processed.output)) :
            LET r == csvRowsOf(processed.output)[i]
            IN  /\ Len(r["Main Owner Name"]) <= 40
                /\ Len(r["Main Owner Last Name"]) <= 80
                /\ Len(r["All Owners"]) <= 255
      /\ \A k \in 1..Len(processed.run.retrievedRaw) :
            processed.run.retrievedRaw[k]["All Owners"] = aggregateOf(k)
      /\ \A i \in 1..Len(processed.output.retrieved) :
            LET v == processed.output.retrieved[i]
                r == processed.output.csvRetrieved[i]
            IN  /\ inSeq(v, processed.run.retrievedRaw)
                /\ r["All Owners"] =
                     SubSeq(sanitize(v["All Owners"]), 1, Len(r["All Owners"]))
                /\ Len(sanitize(v["All Owners"])) > 255 => Len(r["All Owners"]) = 255
      /\ \A i \in 1..Len(processed.output.contacted) :
            inSeq(processed.output.contacted[i], processed.run.retrievedRaw)

\* C11 witness: a Retrieved parcel whose first name, last name and aggregate
\* string all exceed the limits and were cut to 40, 80 and 255 characters
C11_Witness ==
    /\ done
    /\ Len(processed.output.retrieved) = 1
    /\ Len(processed.output.retrieved[1]["Main Owner Name"]) > 40
    /\ Len(processed.output.retrieved[1]["Main Owner Last Name"]) > 80
    /\ Len(processed.output.retrieved[1]["All Owners"]) > 255
    /\ Len(processed.output.csvRetrieved[1]["Main Owner Name"]) = 40
    /\ Len(processed.output.csvRetrieved[1]["Main Owner Last Name"]) = 80
    /\ Len(processed.output.csvRetrieved[1]["All Owners"]) = 255

\* the helper under call has returned
called == returned # NotCalled

\* the quota cell as written, blanks around it removed
quotaText == trim(cell(args, "quota"))

quotaNum == SubSeq(quotaText, 1, indexOf(quotaText, "/") - 1)
quotaDen == drop(quotaText, indexOf(quotaText, "/"))

\* C12: parseQuota of 'A/B' is A/B when both are numeric and B is not 0 and is
\* 0 when B is 0 or not numeric; a missing, empty or unparseable value gives
\* 0; a decimal with comma or dot and an integer give their numeric value.
C12_QuotaValue ==
    called =>
      /\ countOf(quotaText, "/") = 1 =>
            IF /\ quotaNum \in DOMAIN NumeralValue
               /\ quotaDen \in DOMAIN NumeralValue
               /\ ~isZero(NumeralValue[quotaDen])
            THEN ratEq(returned.value,
                       ratDiv(NumeralValue[quotaNum], NumeralValue[quotaDen]))
            ELSE quotaDen \notin DOMAIN NumeralValue \/ isZero(NumeralValue[quotaDen])
                    => ratEq(returned.value, rat(0, 1))
      /\ quotaText \in {"", "x", "abc"} => ratEq(returned.value, rat(0, 1))
      /\ quotaText \in DOMAIN NumeralValue =>
            ratEq(returned.value, NumeralValue[quotaText])
      /\ quotaText \in DOMAIN CommaValue =>
            ratEq(returned.value, CommaValue[quotaText])

\* the raw table has a municipality-like column
hasMuniColumn == muniColRawOf(resultsJson["All_Raw_Data"]) # ""

\* the raw rows filed under the business key of the k-th base parcel
rawOfParcel(k) ==
    SelectSeq(resultsJson["All_Raw_Data"],
              LAMBDA r : cell(r, "Parcel_ID") = processed.run.df_base[k]["Parcel_ID"])

\* the raw row reports the municipality of the k-th base parcel, or one whose
\* name contains it
muniAgrees(r, k) ==
    LET rMuni == toLowerCase(trim(cell(r, muniColRawOf(resultsJson["All_Raw_Data"]))))
        pMuni == toLowerCase(trim(processed.run.df_base[k]["Municipality"]))
    IN  rMuni = pMuni \/ includes(rMuni, pMuni)

agreeingRawOf(k) == SelectSeq(rawOfParcel(k), LAMBDA r : muniAgrees(r, k))

isAmbiguous(k) == processed.run.df_base[k]["Parcel_ID"] \in processed.run.ambiguousPids

\* C13: with a municipality-like raw column, every raw candidate used for a
\* parcel of an ambiguous key reports the parcel's municipality (equal or
\* containing), and the parcel resolves to zero owners when none does; for a
\* key that is not ambiguous an empty filtered set is replaced by the full
\* set of the key's raw rows.
C13_GeographicFilter ==
    (done /\ hasMuniColumn) =>
      \A k \in 1..Len(processed.run.df_base) :
        /\ isAmbiguous(k) =>
              /\ \A i \in 1..Len(survivorsOf(k)) :
                    /\ muniAgrees(survivorsOf(k)[i], k)
                    /\ inSeq(survivorsOf(k)[i], rawOfParcel(k))
              /\ Len(agreeingRawOf(k)) = 0 =>
                    /\ ownersOf(processed.run.retrievedRaw[k]) = 0
                    /\ processed.run.retrievedRaw[k]["All Owners"] = ""
                    /\ ~inSeq(processed.run.retrievedRaw[k], processed.output.retrieved)
        /\ ~isAmbiguous(k) =>
              survivorsOf(k) =
                corporateFilter(IF Len(agreeingRawOf(k)) = 0 THEN rawOfParcel(k)
                                ELSE agreeingRawOf(k))

\* C13 witness: an ambiguous key with raw rows, one of its parcels keeps a
\* candidate of its municipality and the other, matched by none, has no owner
C13_Witness ==
    /\ done /\ hasMuniColumn
    /\ \E k, j \in 1..Len(processed.run.df_base) :
          /\ isAmbiguous(k) /\ isAmbiguous(j)
          /\ Len(rawOfParcel(k)) > Len(survivorsOf(k))
          /\ Len(survivorsOf(k)) > 0
          /\ Len(rawOfParcel(j)) > 0
          /\ Len(agreeingRawOf(j)) = 0
          /\ ownersOf(processed.run.retrievedRaw[j]) = 0

\* the fallback happens: a key that is not ambiguous, matched by none of its
\* raw rows, keeps them all
C13_WitnessFallback ==
    /\ done /\ hasMuniColumn
    /\ \E k \in 1..Len(processed.run.df_base) :
          /\ ~isAmbiguous(k)
          /\ Len(rawOfParcel(k)) > 0
          /\ Len(agreeingRawOf(k)) = 0
          /\ ownersOf(processed.run.retrievedRaw[k]) > 0

\* the candidate sets of the k-th base parcel
candidatesOf(k) ==
    ownerCandidates(processed.run.df_base[k], resultsJson["All_Raw_Data"],
                    resultsJson["Owners_Normalized"], processed.run.ambiguousPids)

\* the resolved record of the k-th base parcel
resolvedOf(k) == processed.run.retrievedRaw[k]

\* a fiscal code that starts with a digit, blanks around it aside: a company
digitLeading(cf) == trim(cf) # "" /\ SubSeq(trim(cf), 1, 1) \in DigitSet

companiesIn(rows) == SelectSeq(rows, LAMBDA r : digitLeading(cell(r, "cf_owner")))
individualsIn(rows) == SelectSeq(rows, LAMBDA r : ~digitLeading(cell(r, "cf_owner")))

\* the normalized rows of the k-th base parcel
normOfParcel(k) ==
    SelectSeq(resultsJson["Owners_Normalized"],
              LAMBDA r : cell(r, "Parcel_ID") = processed.run.df_base[k]["Parcel_ID"])

\* C14: when a candidate that survived the geographic filter has a fiscal
\* code starting with a digit, every kept candidate has one, the resolved
\* Fiscal Code starts with a digit and no individual is counted or listed in
\* All Owners; otherwise the candidate set is left as it was.
C14_CorporatePriority ==
    done =>
      \A k \in 1..Len(processed.run.df_base) :
        IF Len(companiesIn(candidatesOf(k).geoRaw)) > 0
        THEN /\ survivorsOf(k) = companiesIn(candidatesOf(k).geoRaw)
             /\ digitLeading(resolvedOf(k)["Fiscal Code"])
             /\ ownersOf(resolvedOf(k)) =
                  LET companyNorm ==
                        SelectSeq(normOfParcel(k), LAMBDA r :
                            \E i \in 1..Len(survivorsOf(k)) :
                                cell(r, "owner_cf") = survivorsOf(k)[i]["cf_owner"])
                  IN  IF Len(companyNorm) > 0 THEN Len(companyNorm)
                      ELSE Len(survivorsOf(k))
             /\ \A i \in 1..Len(individualsIn(candidatesOf(k).geoRaw)) :
                  LET r == individualsIn(candidatesOf(k).geoRaw)[i]
                  IN  /\ ~includes(resolvedOf(k)["All Owners"], rawOwnerEntry(r))
                      /\ r["cf_owner"] # "" =>
                            ~includes(resolvedOf(k)["All Owners"], r["cf_owner"])
        ELSE survivorsOf(k) = candidatesOf(k).geoRaw

\* C14 witness: a company and an individual are candidates of one parcel, the
\* individual has a normalized row, and the parcel resolves to the company
C14_Witness ==
    /\ done
    /\ \E k \in 1..Len(processed.run.df_base) :
          /\ Len(companiesIn(candidatesOf(k).geoRaw)) > 0
          /\ Len(individualsIn(candidatesOf(k).geoRaw)) > 0
          /\ \E i \in 1..Len(normOfParcel(k)) :
                ~digitLeading(normOfParcel(k)[i]["owner_cf"])
          /\ resolvedOf(k)["Fiscal Code"] = "123"
          /\ ownersOf(resolvedOf(k)) = 1

\* the normalized rows of the k-th base parcel whose fiscal code is valid
relevantOf(k) == candidatesOf(k).relevantNormRows

\* the first row of rows whose parsed quota no other row exceeds
firstHighestQuota(rows) ==
    CHOOSE i \in 1..Len(rows) :
        /\ \A j \in 1..Len(rows) :
              ~ratGt(parseQuota(cell(rows[j], "quota")),
                     parseQuota(cell(rows[i], "quota")))
        /\ \A j \in 1..(i - 1) :
              ratGt(parseQuota(cell(rows[i], "quota")),
                    parseQuota(cell(rows[j], "quota")))

\* C15: whenever some normalized row of the parcel has a valid fiscal code,
\* the main owner is the first of those rows with the highest parsed quota
\* and the resolved Fiscal Code is that row's, whatever the quotas are (all
\* zero, unparseable, negative).
C15_MainOwnerIsHighestQuota ==
    done =>
      \A k \in 1..Len(processed.run.df_base) :
        Len(relevantOf(k)) > 0 =>
          resolvedOf(k)["Fiscal Code"] =
            relevantOf(k)[firstHighestQuota(relevantOf(k))]["owner_cf"]

\* C15 restricted to parcels where some valid normalized row has a quota
\* above -1
C15_HighestQuotaAboveMinusOne ==
    done =>
      \A k \in 1..Len(processed.run.df_base) :
        (/\ Len(relevantOf(k)) > 0
         /\ \E i \in 1..Len(relevantOf(k)) :
               ratGt(parseQuota(cell(relevantOf(k)[i], "quota")), rat(-1, 1))) =>
          resolvedOf(k)["Fiscal Code"] =
            relevantOf(k)[firstHighestQuota(relevantOf(k))]["owner_cf"]

\* no normalized main owner was chosen for the k-th base parcel and its first
\* surviving raw candidate is the main owner
rawMainOwnerUsed(k) ==
    mainOwnerNormIndex(relevantOf(k)) = 0 /\ Len(survivorsOf(k)) > 0

mainOwnerRowOf(k) == survivorsOf(k)[1]

resolvedNamesOf(k) ==
    <<resolvedOf(k)["Main Owner Name"], resolvedOf(k)["Main Owner Last Name"]>>

ParcelCols ==
    {"Province", "Municipality", "Section", "Sheet", "Parcel",
     "Cadastral Area (Ha)", "Parcel_ID"}

\* the postal codes the surviving candidates of the k-th base parcel supply
postalCodesOf(k) ==
    {survivorsOf(k)[i]["CP"] :
        i \in {j \in 1..Len(survivorsOf(k)) : truthy(survivorsOf(k)[j], "CP")}}

\* C17: the resolved record has the province, municipality, section, sheet,
\* parcel, area and business key of its base parcel, and its postal code
\* unless a surviving candidate supplies one; a parcel whose candidates carry
\* no postal code keeps the CP of the Input row.
C17_ResolutionKeepsParcelFields ==
    done =>
      \A k \in 1..Len(processed.run.df_base) :
        /\ \A c \in ParcelCols :
              resolvedOf(k)[c] = processed.run.df_base[k][c]
        /\ IF postalCodesOf(k) # {}
           THEN resolvedOf(k)["CP"] \in postalCodesOf(k)
           ELSE resolvedOf(k)["CP"] = processed.run.df_base[k]["CP"]

\* the distinct values of column col in rows
distinctIn(rows, col) == {cell(rows[i], col) : i \in 1..Len(rows)}

\* C18: Number of Owners is the number of distinct owners of the parcel: the
\* distinct fiscal codes among the valid normalized rows when there are any,
\* else among the surviving raw candidates.
C18_OwnerCountIsDistinct ==
    done =>
      \A k \in 1..Len(processed.run.df_base) :
        ownersOf(resolvedOf(k)) =
          IF Len(relevantOf(k)) > 0
          THEN Cardinality(distinctIn(relevantOf(k), "owner_cf"))
          ELSE Cardinality(distinctIn(survivorsOf(k), "cf_owner"))

\* the parts of C17 and C18 the engine does keep: the locating columns of
\* the base parcel are untouched and the owner count is the number of valid
\* normalized rows, else of surviving raw rows
ResolutionKeepsLocation ==
    done =>
      \A k \in 1..Len(processed.run.df_base) :
        /\ \A c \in ParcelCols : resolvedOf(k)[c] = processed.run.df_base[k][c]
        /\ resolvedOf(k)["CP"] \in postalCodesOf(k) \cup {""}
        /\ ownersOf(resolvedOf(k)) =
             IF Len(relevantOf(k)) > 0 THEN Len(relevantOf(k))
             ELSE Len(survivorsOf(k))

\* the column of the manifest the validator takes for the business key
manifestKeyCol ==
    CHOOSE k \in DOMAIN resultsJson["Final_Mailing_By_Parcel"][1] :
        toLowerCase(k) \in {"parcel_id", "elenco_parcel_id"}

manifestKeys ==
    {resultsJson["Final_Mailing_By_Parcel"][i][manifestKeyCol] :
        i \in 1..Len(resultsJson["Final_Mailing_By_Parcel"])}

\* C19: for every Results bundle the validator accepts, Contacted holds the
\* resolved parcels whose business key is in the manifest's business-key
\* column, whichever accepted alias or letter case names that column.
C19_ContactedByAcceptedKeyColumn ==
    (done /\ validated /\ validation.isValid) =>
      processed.output.contacted =
        SelectSeq(processed.run.retrievedRaw,
                  LAMBDA row : row["Parcel_ID"] \in manifestKeys)

\* C19 for the one spelling the pipeline reads: a manifest keyed under
\* Parcel_ID selects by that column
ContactedByParcelIdColumn ==
    (done /\ validated /\ validation.isValid /\ manifestKeyCol = "Parcel_ID") =>
      processed.output.contacted =
        SelectSeq(processed.run.retrievedRaw,
                  LAMBDA row : row["Parcel_ID"] \in manifestKeys)

\* the Land External ID of every row of a CRM stage is the canonical
\* identifier of the record it was made from, and is unique in the stage
crmIdsAreCanonical(records, crmRows) ==
    /\ Len(crmRows) = Len(records)
    /\ \A i \in 1..Len(crmRows) :
          crmRows[i]["Land External ID"] = externalIdOf(records[i])
    /\ \A i, j \in 1..Len(crmRows) :
          crmRows[i]["Land External ID"] = crmRows[j]["Land External ID"] => i = j

\* C20: in every CRM row the Land External ID is the canonical identifier
\* the resolver computed for the parcel during deduplication, so no two rows
\* of one CRM stage share a Land External ID.
C20_CrmIdIsCanonicalId ==
    done =>
      /\ crmIdsAreCanonical(processed.run.df_base, processed.output.csvScouted)
      /\ crmIdsAreCanonical(processed.output.retrieved, processed.output.csvRetrieved)
      /\ crmIdsAreCanonical(processed.output.contacted, processed.output.csvContacted)

\* C20 up to white space: the Land External ID is the canonical identifier
\* with its runs of white space collapsed and its ends trimmed
CrmIdIsSanitizedCanonicalId ==
    done =>
      /\ \A i \in 1..Len(processed.output.csvScouted) :
            processed.output.csvScouted[i]["Land External ID"] =
              sanitize(externalIdOf(processed.run.df_base[i]))
      /\ \A i \in 1..Len(processed.output.csvRetrieved) :
            processed.output.csvRetrieved[i]["Land External ID"] =
              sanitize(externalIdOf(processed.output.retrieved[i]))
      /\ \A i \in 1..Len(processed.output.csvContacted) :
            processed.output.csvContacted[i]["Land External ID"] =
              sanitize(externalIdOf(processed.output.contacted[i]))

\* two rows of the Scouted CRM stage carry the same Land External ID
ScoutedCrmIdsCollide ==
    /\ done
    /\ \E i, j \in 1..Len(processed.output.csvScouted) :
          /\ i # j
          /\ processed.output.csvScouted[i]["Land External ID"] =
               processed.output.csvScouted[j]["Land External ID"]

\* the cell is made of digits only
purelyNumeric(v) == v # "" /\ \A i \in 1..Len(v) : SubSeq(v, i, i) \in DigitSet

\* what the sentence asks of one component: the number zero-padded to width
\* for a numeric cell, else the cell itself padded to width
paddedAsStated(v, width) ==
    IF purelyNumeric(v)
    THEN repeat("0", width - Len(natToString(digitsValue(v, 0))))
         \o natToString(digitsValue(v, 0))
    ELSE repeat("0", width - Len(v)) \o v

\* C21: generateExternalId zero-pads a numeric sheet to 4 digits and a
\* numeric parcel to 5, writes 'X' for an empty section, and pads a sheet or
\* parcel that is not purely numeric as a string, keeping its non-digit
\* content (so '12A' and '12' give different components).
C21_PaddedComponents ==
    (called /\ fn = "generateExternalId") =>
      returned.value =
        args.provinceCode \o "-" \o "ROMA" \o "-"
        \o (IF args.section \in {"", " "} THEN "X" ELSE "B") \o "-"
        \o paddedAsStated(args.sheet, 4) \o "-" \o paddedAsStated(args.parcel, 5)

\* C21 for cells that do not start with a digit followed by other content:
\* numeric cells are zero-padded as numbers, cells without a leading digit as
\* strings, and the empty section is 'X'
PaddedComponentsWithoutDigitPrefix ==
    (/\ called /\ fn = "generateExternalId"
     /\ \A v \in {args.sheet, args.parcel} :
           purelyNumeric(v) \/ v = "" \/ SubSeq(v, 1, 1) \notin DigitSet) =>
      returned.value =
        args.provinceCode \o "-" \o "ROMA" \o "-"
        \o (IF args.section \in {"", " "} THEN "X" ELSE "B") \o "-"
        \o paddedAsStated(args.sheet, 4) \o "-" \o paddedAsStated(args.parcel, 5)

\* a parcel cell '12A' has given the component of parcel 12
ParcelSuffixDropped ==
    /\ called /\ fn = "generateExternalId"
    /\ args.sheet = "1" /\ args.parcel = "12A" /\ args.section = ""
    /\ returned.value = "BG-ROMA-X-0001-00012"

\* the province cell upper-cased and trimmed
provinceKey == trim(toUpperCase(args))

\* the provinces of the table the cell names: by name, code or
\* accent-stripped name
namedProvinces ==
    {i \in 1..Len(ITALIAN_PROVINCES) :
        provinceKey \in {toUpperCase(ITALIAN_PROVINCES[i].name),
                         toUpperCase(ITALIAN_PROVINCES[i].code),
                         toUpperCase(stripAccents(ITALIAN_PROVINCES[i].name))}}

\* the provinces the cell names through a curated alias
aliasedProvinces ==
    {i \in 1..Len(ITALIAN_PROVINCES) :
        \E a \in 1..Len(PROVINCE_ALIASES) :
            /\ PROVINCE_ALIASES[a][1] = provinceKey
            /\ PROVINCE_ALIASES[a][2] = toUpperCase(ITALIAN_PROVINCES[i].name)}

\* the table entry was returned for a cell that names a province
knownProvinceReturned ==
    \E i \in namedProvinces \cup aliasedProvinces :
        returned.value = [code |-> ITALIAN_PROVINCES[i].code,
                          region |-> ITALIAN_PROVINCES[i].region,
                          name |-> ITALIAN_PROVINCES[i].name]

\* C22 as stated: a cell that names a province gets its table entry; any
\* other cell gets itself (two characters) or its first two characters as
\* code, with region and canonical name blank (refuted: the name is the cell)
C22_FallbackNameBlank ==
    (called /\ fn = "getProvinceDetails") =>
      IF namedProvinces \cup aliasedProvinces # {} THEN knownProvinceReturned
      ELSE returned.value =
             [code |-> IF Len(provinceKey) = 2 THEN provinceKey
                       ELSE substring0(provinceKey, 2),
              region |-> "", name |-> ""]

\* C22 amended: a cell that names a province gets its table entry; any other
\* cell gets, upper-cased and trimmed, itself (two characters) or its first
\* two characters as code, a blank region, and the cell as given as name.
C22_FallbackNameIsInput ==
    (called /\ fn = "getProvinceDetails") =>
      IF namedProvinces \cup aliasedProvinces # {} THEN knownProvinceReturned
      ELSE returned.value =
             [code |-> IF Len(provinceKey) = 2 THEN provinceKey
                       ELSE substring0(provinceKey, 2),
              region |-> "", name |-> args]

\* C22 witness: an unknown cell of more than two characters came back with
\* its first two characters as code and itself as name
C22_Witness ==
    /\ called /\ fn = "getProvinceDetails"
    /\ args = " Atlantis"
    /\ returned.value = [code |-> "AT", region |-> "", name |-> " Atlantis"]

\* the Company Contact rows that give a non-empty email for fiscal code cf
contactEntries(cf) ==
    {i \in 1..Len(resultsJson["All_Companies_Found"]) :
        /\ cf # ""
        /\ cell(resultsJson["All_Companies_Found"][i], "cf") = cf
        /\ cell(resultsJson["All_Companies_Found"][i], "pec_email") # ""}

firstContactEmail(cf) ==
    resultsJson["All_Companies_Found"][
        CHOOSE i \in contactEntries(cf) : \A j \in contactEntries(cf) : i <= j
    ]["pec_email"]

C24_SyntheticLastName ==
    done =>
      /\ \A i \in 1..Len(processed.output.csvRetrieved) :
            LET crm == processed.output.csvRetrieved[i]["Main Owner Last Name"]
                rec == processed.output.retrieved[i]
            IN  /\ crm # ""
                /\ crm = IF rec["Main Owner Last Name"] = ""
                         THEN substring0("Unknown " \o externalIdOf(rec), 80)
                         ELSE substring0(rec["Main Owner Last Name"], 80)
      /\ \A i \in 1..Len(processed.output.csvContacted) :
            processed.output.csvContacted[i]["Main Owner Last Name"] =
              substring0(processed.output.contacted[i]["Main Owner Last Name"], 80)

\* C24 witness: a parcel resolved to an owner without last name is in both
\* stages, as 'Unknown BG-ROMA-X-0001-00001' in Retrieved and without last
\* name in Contacted
C24_Witness ==
    /\ done
    /\ Len(processed.output.csvRetrieved) = 1
    /\ Len(processed.output.csvContacted) = 1
    /\ processed.output.retrieved[1]["Main Owner Last Name"] = ""
    /\ processed.output.csvRetrieved[1]["Main Owner Last Name"] =
         "Unknown BG-ROMA-X-0001-00001"
    /\ processed.output.csvContacted[1]["Main Owner Last Name"] = ""

\* the text has no line break, carriage return or tab and no two white-space
\* characters in a row
isClean(text) ==
    /\ \A i \in 1..Len(text) : SubSeq(text, i, i) \notin {"\n", "\r", "\t"}
    /\ \A i \in 1..(Len(text) - 1) :
          ~(SubSeq(text, i, i) \in SpaceSet /\ SubSeq(text, i + 1, i + 1) \in SpaceSet)

\* C25: no field of any CRM-shape row of any stage contains a newline, a
\* carriage return, a tab or a run of two or more white-space characters,
\* whatever the input cells are.
C25_CrmFieldsAreClean ==
    done =>
      \A i \in 1..Len(csvRowsOf(processed.output)) :
        \A k \in DOMAIN csvRowsOf(processed.output)[i] :
          isClean(csvRowsOf(processed.output)[i][k])

\* C25 for the fields that pass through sanitize: all but the area and the
\* last name
SanitizedCrmFieldsAreClean ==
    done =>
      \A i \in 1..Len(csvRowsOf(processed.output)) :
        \A k \in DOMAIN csvRowsOf(processed.output)[i]
                   \ {"Cadastral Area (Ha)", "Main Owner Last Name"} :
          isClean(csvRowsOf(processed.output)[i][k])

\* an area cell with a line break is in a CRM row as typed
AreaLineBreakEmitted ==
    /\ done
    /\ \E i \in 1..Len(processed.output.csvScouted) :
          processed.output.csvScouted[i]["Cadastral Area (Ha)"] = "1,5\n"

\* a synthetic last name carries the tab of the section cell
SyntheticNameTabEmitted ==
    /\ done
    /\ \E i \in 1..Len(processed.output.csvRetrieved) :
          processed.output.csvRetrieved[i]["Main Owner Last Name"] =
            "Unknown BG-ROMA-A\tB-0001-00001"

(***************************************************************************)
(* Properties of the App shell under interleaving.                         *)
(***************************************************************************)
\* the output on display is what the last run returned, and that run read
\* the sheet-sets the cache holds now
outputIsCurrent ==
    /\ processed # NotRun
    /\ ~processed.threw
    /\ outputData = processed.output
    /\ inputJson = fileDataCache["input"]
    /\ resultsJson = fileDataCache["results"]

\* C26: in every reachable state a non-null outputData was computed from the
\* data now in the cache for both file types and both file statuses are
\* 'valid'; stale output never survives a later change of the cached data.
C26_OutputIsCurrent ==
    outputData # Null =>
      /\ \A t \in FileTypes : fileStatus[t] = "valid"
      /\ outputIsCurrent

\* what does hold: the step that puts an output on display puts there the
\* output computed from the cache as it is at that step
OutputComputedAtResume ==
    [][(outputData' # Null /\ outputData' # outputData)
         => /\ ~missingData(fileDataCache)
            /\ outputData' = transformDataProcess(fileDataCache["input"],
                                                  fileDataCache["results"]).output]_vars

\* a run that resumed after a new Results file was selected has put its
\* output on display, and the load that failed afterwards emptied the cache
StaleOutputSurvives ==
    /\ outputData # Null
    /\ pendingLoads = {}
    /\ pendingRuns = 0
    /\ fileStatus["results"] = "invalid"
    /\ fileDataCache["results"] = Null

\* the output is on display while the newly selected file is still loading
OutputShownWhileLoading ==
    /\ outputData # Null
    /\ \E t \in FileTypes : fileStatus[t] = "loading"

\* what a completed load of file as type leaves in fileStatus and in the cache
loadOutcome(file, type) ==
    LET read == readFileSheets(file)
    IN  IF ~read.rejected /\ validationOf(type, read.result).isValid
        THEN [status |-> "valid", data |-> read.result]
        ELSE [status |-> "invalid", data |-> Null]

\* no load of a file of the type is pending
settled(type) == \A load \in pendingLoads : load.type # type

\* C27: when several files of one type were selected while earlier loads were
\* pending, then once all loads of that type have completed the status and
\* the cached data of the type are those of the most recently selected file,
\* the one in files[type], whatever order the loads completed in (a run that
\* went through has written the common fields into the cached Input rows).
C27_LatestSelectionWins ==
    \A type \in FileTypes :
      (settled(type) /\ files[type] # Null) =>
        /\ fileStatus[type] = loadOutcome(files[type], type).status
        /\ fileDataCache[type] \in
              {loadOutcome(files[type], type).data,
               IF type = "input" /\ loadOutcome(files[type], type).data # Null
               THEN inputAfterRun(loadOutcome(files[type], type).data)
               ELSE Null}

\* what does hold: the load that completes last wins; each completion
\* writes the status and the data of its own file
LastCompletionWins ==
    [][\A load \in pendingLoads :
          load \notin pendingLoads' =>
            /\ fileStatus'[load.type] = loadOutcome(load.file, load.type).status
            /\ fileDataCache'[load.type] = loadOutcome(load.file, load.type).data]_vars

\* input.xlsx was selected after partial.xlsx and is the file shown, its load
\* completed first, and the Input zone ends invalid with nothing cached
OlderLoadOverwritesValid ==
    /\ pendingLoads = {}
    /\ clicks.reset = 0
    /\ files["input"] # Null /\ files["input"].name = "input.xlsx"
    /\ fileStatus["input"] = "invalid"
    /\ fileDataCache["input"] = Null

\* partial.xlsx was selected after input.xlsx and is the file shown, and the
\* Input zone ends valid with the rows of input.xlsx cached
OlderLoadShownValid ==
    /\ pendingLoads = {}
    /\ clicks.reset = 0
    /\ files["input"] # Null /\ files["input"].name = "partial.xlsx"
    /\ fileStatus["input"] = "valid"
    /\ fileDataCache["input"] = readFileSheets(appFile("input.xlsx")).result

\* the App as handleReset leaves it
resetState ==
    /\ \A t \in FileTypes : files[t] = Null
    /\ \A t \in FileTypes : fileStatus[t] = "waiting"
    /\ \A t \in FileTypes : fileDataCache[t] = Null
    /\ outputData = Null

\* C28: after handleReset, as long as no new file is selected, both statuses
\* stay 'waiting', both cache entries, both selected files and outputData
\* stay null, even when a load or a run that started before the reset
\* completes afterwards.
C28_ResetIsStable ==
    [][(clicks.reset > 0 /\ resetState /\ clicks'.select = clicks.select)
         => resetState']_vars

\* what does hold: only a selection fills files, and a run that resumes on
\* the emptied cache throws and shows no output
ResetKeepsFilesAndOutput ==
    [][(clicks.reset > 0 /\ resetState /\ clicks'.select = clicks.select)
         => /\ \A t \in FileTypes : files'[t] = Null
            /\ outputData' = Null]_vars

\* a load that was pending at the reset completed afterwards: no file is
\* selected, yet the Input zone is valid and its rows are cached
LoadCompletesAfterReset ==
    /\ clicks.reset > 0
    /\ \A t \in FileTypes : files[t] = Null
    /\ fileStatus["input"] = "valid"
    /\ fileDataCache["input"] # Null

\* both loads that were pending at the reset completed afterwards and a run
\* went through on their data: no file is selected, yet an output is shown
OutputAfterReset ==
    /\ clicks.reset > 0
    /\ \A t \in FileTypes : files[t] = Null
    /\ outputData # Null

\* C29: in every reachable state, for each file type, status 'valid' implies
\* cached data and status 'waiting' or 'invalid' implies a null cache entry;
\* hence whenever the Run button is enabled the precondition check of
\* handleRunTransformation passes.
C29_StatusMatchesCache ==
    /\ \A t \in FileTypes :
          /\ fileStatus[t] = "valid" => fileDataCache[t] # Null
          /\ fileStatus[t] \in {"waiting", "invalid"} => fileDataCache[t] = Null
    /\ ~runDisabled => ~missingData(fileDataCache)

\* C29 witness: a reset happened, both selections were made and both loads
\* have completed; the Run button is enabled on a full cache
C29_Witness ==
    /\ clicks.reset = 1
    /\ clicks.select = MaxSelections
    /\ pendingLoads = {}
    /\ ~runDisabled
    /\ ~missingData(fileDataCache)

\* the last line handleRunTransformation logs on success
successLine ==
    LogEntry("Transformation complete. Output files are ready for download.",
             "success")

\* C30: every run that sets isProcessing to true eventually sets it back to
\* false, whether the pipeline returns output or throws; on a throw
\* outputData stays null and one error line is logged, on success outputData
\* is set and a success line is logged.
C30_RunCompletes ==
    /\ isProcessing ~> ~isProcessing
    /\ [][pendingRuns' < pendingRuns =>
            /\ isProcessing /\ ~isProcessing'
            /\ isPrefix(logs, logs')
            /\ IF processed'.threw
               THEN /\ outputData = Null /\ outputData' = Null
                    /\ Len(appended) = 1
                    /\ appended[1].type = "error"
               ELSE /\ outputData' # Null
                    /\ outputData' = processed'.output
                    /\ Len(appended) >= 1
                    /\ appended[Len(appended)] = successLine
                    /\ \A i \in 1..Len(appended) : appended[i].type # "error"]_vars

\* C30 witness: a run whose cache a reset emptied during the pause has
\* thrown; isProcessing is false again, no output is shown and the error
\* line is the last line of the log
C30_Witness ==
    /\ clicks.run >= 1
    /\ pendingRuns = 0
    /\ processed # NotRun /\ processed.threw
    /\ ~isProcessing
    /\ outputData = Null
    /\ Len(logs) >= 1
    /\ logs[Len(logs)] =
          LogEntry("An unexpected error occurred during transformation: Missing data for processing",
                   "error")

\* a run that went through: isProcessing is false again, the output is shown
\* and the success line is the last line of the log
RunSucceeded ==
    /\ pendingRuns = 0
    /\ processed # NotRun /\ ~processed.threw
    /\ ~isProcessing
    /\ outputData = processed.output
    /\ logs[Len(logs)] = successLine
====
